---------------------------- MODULE Spec2Model ----------------------------
(***************************************************************************)
(* Seat-view application: the model-resource loader (ModelProvider), the   *)
(* model uploader (ModelUploader, validateGlbFile) and the application     *)
(* state that connects them (App.customModelUrl); the seat import          *)
(* (seatCoordinateParser, seatLoader); the seat map (StadiumMap) with its  *)
(* transformations, their durable copy and its selection timers.           *)
(*                                                                         *)
(* Text is modelled as a sequence of one-character strings, a file's       *)
(* content as a sequence of bytes.                                         *)
(***************************************************************************)
EXTENDS Integers, Sequences, FiniteSets, TLC

VARIABLES
    vFile,            \* validateGlbFile: the file under validation
    vResult,          \* validateGlbFile: the value the promise resolved to
    customModelUrl,   \* App: useState(null)
    mounted,          \* ModelProvider is mounted
    isLoading,        \* ModelProvider: useState(true)
    error,            \* ModelProvider: useState(null)
    model,            \* ModelProvider: useState(null)
    loads,            \* one record per run of the provider's load effect
    nLoads,           \* number of effect runs so far
    released,         \* scene id -> number of dispose traversals run on it
    exposed,          \* scene ids that were exposed as the ready model
    uploads,          \* one record per saveModelFile call
    nUploads,         \* number of saveModelFile calls so far
    uploading,        \* ModelUploader: useState(false)
    uploadError,      \* ModelUploader: useState(null)
    importText,       \* seat import: the text of coordinates.txt or the textarea
    importSource,     \* seat import: "file" (loadSeatsFromFile) or "paste"
    importPc,         \* seat import: how far the import has got
    coordinates,      \* seat import: the points parsed, then remapped
    seats,            \* seat import: the seat objects built from them
    remap,            \* the two axis remaps applied to one triple
    availableSeats,   \* App: useState(DEFAULT_SEATS)
    selectedSeat,     \* App: useState(null)
    viewingMode,      \* App: useState(false)
    isLoadingSeats,   \* App: useState(false)
    fileSeatsLoaded,  \* App: useState(false)
    localStorage,     \* window.localStorage, the five keys of the seat map
    editMode,         \* StadiumMap: useState(loadSavedValue(EDIT_MODE, true))
    transformations,  \* StadiumMap: useState({scale, rotation, ...})
    pendingEffects,   \* StadiumMap: effects due after the last commit
    rendered,         \* StadiumMap: the Seats of the last commit
    selectedSeatIndex, \* StadiumMap: useState(null)
    isTransitioning,  \* StadiumMap: useState(false)
    cameraTarget,     \* StadiumMap: useState(null)
    timers,           \* pending setTimeout callbacks of the seat map
    late,             \* what callbacks did for an unmounted StadiumMap
    norm,             \* calcScalingFactors applied to one list of coordinates
    purchaseComplete, \* App: useState(false)
    fetches           \* App: the calls of loadSeatsFromFile it awaits

vars == <<vFile, vResult, customModelUrl, mounted, isLoading, error, model,
          loads, nLoads, released, exposed, uploads, nUploads, uploading,
          uploadError, importText, importSource, importPc, coordinates, seats,
          remap, availableSeats, selectedSeat, viewingMode, isLoadingSeats,
          fileSeatsLoaded, localStorage, editMode, transformations,
          pendingEffects, rendered, selectedSeatIndex, isTransitioning,
          cameraTarget, timers, late, norm, purchaseComplete, fetches>>

glbVars == <<vFile, vResult>>
seatVars == <<importText, importSource, importPc, coordinates, seats>>
remapVars == <<remap>>

normVars == <<norm>>

flowVars == <<purchaseComplete, fetches>>

mapVars == <<availableSeats, selectedSeat, viewingMode, isLoadingSeats,
             fileSeatsLoaded, localStorage, editMode, transformations,
             pendingEffects, rendered, selectedSeatIndex, isTransitioning,
             cameraTarget, timers, late>>
appVars == <<customModelUrl, mounted, isLoading, error, model, loads, nLoads,
             released, exposed, uploads, nUploads, uploading, uploadError>>

Null == "null"

-----------------------------------------------------------------------------
(* Text helpers: String.prototype.toLowerCase, split('.').pop(), includes,  *)
(* endsWith.                                                                *)

LowerChar(c) ==
    CASE c = "G" -> "g"
      [] c = "L" -> "l"
      [] c = "B" -> "b"
      [] c = "D" -> "d"
      [] c = "A" -> "a"
      [] c = "E" -> "e"
      [] OTHER -> c

toLowerCase(s) == [i \in 1..Len(s) |-> LowerChar(s[i])]

\* s.split('.').pop(): the text after the last '.', the whole text without one
SplitPop(s) ==
    LET dots == {i \in 1..Len(s) : s[i] = "."}
    IN  IF dots = {} THEN s
        ELSE LET last == CHOOSE i \in dots : \A j \in dots : j <= i
             IN  SubSeq(s, last + 1, Len(s))

\* hay.includes(needle)
Includes(hay, needle) ==
    \E i \in 0..(Len(hay) - Len(needle)) :
        SubSeq(hay, i + 1, i + Len(needle)) = needle

\* s.endsWith(suffix)
EndsWith(s, suffix) ==
    /\ Len(s) >= Len(suffix)
    /\ SubSeq(s, Len(s) - Len(suffix) + 1, Len(s)) = suffix

-----------------------------------------------------------------------------
(* modelLoader: SUPPORTED_FORMATS and validateGlbFile                       *)

SUPPORTED_FORMATS ==
    << <<".", "g", "l", "b">>,
       <<".", "g", "l", "t", "f">>,
       <<".", "f", "b", "x">>,
       <<".", "o", "b", "j">>,
       <<".", "s", "t", "l">>,
       <<".", "d", "a", "e">> >>

GLB_MAGIC == 1735152710        \* 0x676C5446
GLB_VERSION == 2
JSON_CHUNK == 1313821514       \* 0x4E4F534A

\* DataView.getUint32 throws a RangeError when offset + 4 exceeds the buffer
InRange(bytes, offset) == offset + 4 <= Len(bytes)

getUint32BigEndian(bytes, offset) ==
    bytes[offset + 1] * 16777216 + bytes[offset + 2] * 65536
        + bytes[offset + 3] * 256 + bytes[offset + 4]

getUint32LittleEndian(bytes, offset) ==
    bytes[offset + 4] * 16777216 + bytes[offset + 3] * 65536
        + bytes[offset + 2] * 256 + bytes[offset + 1]

\* variant: the byte order of every read reversed
getUint32Swapped(bytes, offset, littleEndian) ==
    IF littleEndian THEN getUint32BigEndian(bytes, offset)
    ELSE getUint32LittleEndian(bytes, offset)

\* view.getUint32(offset, littleEndian)
getUint32(bytes, offset, littleEndian) ==
    IF littleEndian THEN getUint32LittleEndian(bytes, offset)
    ELSE getUint32BigEndian(bytes, offset)

Verdict(v, m) == [valid |-> v, message |-> m]

fileExtensionOf(file) == toLowerCase(SplitPop(file.name))

\* variant: no extension check
isSupportedAny(fileExtension) == TRUE

isSupported(fileExtension) ==
    \E k \in 1..Len(SUPPORTED_FORMATS) :
        Includes(SUPPORTED_FORMATS[k], fileExtension)

\* what a try block comes to other than a value: the error it throws
Throw(errorName) == [thrown |-> errorName]

threw(outcome) == "thrown" \in DOMAIN outcome

\* the checks of the 'glb' branch, in the code's order; a read outside the
\* buffer throws a RangeError
validateGlbBytes(bytes) ==
    IF ~InRange(bytes, 0) THEN Throw("RangeError")
    ELSE IF getUint32(bytes, 0, FALSE) # GLB_MAGIC
        THEN Verdict(FALSE, "Missing glTF magic bytes")
    ELSE IF ~InRange(bytes, 4) THEN Throw("RangeError")
    ELSE IF getUint32(bytes, 4, TRUE) # GLB_VERSION
        THEN Verdict(FALSE, "Unsupported GLB version")
    ELSE IF ~InRange(bytes, 8) THEN Throw("RangeError")
    ELSE IF getUint32(bytes, 8, TRUE) > Len(bytes)
        THEN Verdict(FALSE, "Expected length exceeds actual size")
    ELSE IF ~InRange(bytes, 16) THEN Throw("RangeError")
    ELSE IF getUint32(bytes, 16, TRUE) # JSON_CHUNK
        THEN Verdict(FALSE, "Missing JSON chunk")
    ELSE Verdict(TRUE, "GLB file appears to be valid")

\* the try block of validateGlbFile
tryValidateGlbFile(file) ==
    LET fileExtension == fileExtensionOf(file)
    IN  IF ~isSupported(fileExtension)
            THEN Verdict(FALSE, "File format is not supported")
        ELSE IF fileExtension = <<"g", "l", "b">>
            THEN validateGlbBytes(file.bytes)
        ELSE Verdict(TRUE, "file format detected")

\* variant: the error is thrown on
catchValidationErrorRethrown(outcome) == outcome

\* catch (error) { return { valid: false, message: ... } }
catchValidationError(outcome) ==
    IF threw(outcome) THEN Verdict(FALSE, "Error validating file")
    ELSE outcome

validateGlbFile(file) == catchValidationError(tryValidateGlbFile(file))

-----------------------------------------------------------------------------
(* Files offered to validateGlbFile: a 24-byte GLB image assembled from a   *)
(* choice for each header field, cut to a choice of actual sizes.  Bytes    *)
(* stay below 128 so that every 32-bit field fits the checker's integers.   *)

Magics == { <<103, 108, 84, 70>>, <<70, 84, 108, 103>>, <<103, 108, 84, 71>> }
Versions == { <<2, 0, 0, 0>>, <<0, 0, 0, 2>>, <<1, 0, 0, 0>> }
Lengths == { <<20, 0, 0, 0>>, <<24, 0, 0, 0>>, <<25, 0, 0, 0>>, <<0, 0, 0, 20>> }
ChunkTypes == { <<74, 83, 79, 78>>, <<78, 79, 83, 74>>, <<66, 73, 78, 0>> }
Sizes == {0, 3, 11, 19, 20, 24}

GlbImage(m, v, l, c, size) ==
    SubSeq(m \o v \o l \o <<4, 0, 0, 0>> \o c \o <<123, 125, 32, 32>>, 1, size)

Images ==
    { GlbImage(m, v, l, c, size) :
        m \in Magics, v \in Versions, l \in Lengths, c \in ChunkTypes,
        size \in Sizes }

Names ==
    { <<"m", ".", "g", "l", "b">>,
      <<"m", ".", "G", "L", "B">>,
      <<"m", ".", "d", "a", "e">>,
      <<"m", ".", "t", "x", "t">>,
      <<"m", ".", "g">>,
      <<"g", "l", "b">>,
      <<"a", ".", "b", ".", "g", "l", "t", "f">> }

Files == [name : Names, bytes : Images]

NoResult == [valid |-> FALSE, message |-> "pending"]

-----------------------------------------------------------------------------
(* ModelContext: what a decoder hands to its onLoad callback.               *)
(* A scene-graph node is described by what isValidModel reads of it (type,  *)
(* geometry, number of children) and by whether a renderable primitive      *)
(* lies anywhere below it.                                                  *)

Node(t, g, n, below) ==
    [type |-> t, geometry |-> g, nChildren |-> n, meshBelow |-> below]

MeshNode == Node("Mesh", TRUE, 0, FALSE)
BareMesh == Node("Mesh", FALSE, 0, FALSE)
EmptyGroup == Node("Group", FALSE, 0, FALSE)
HollowGroup == Node("Group", FALSE, 1, FALSE)
ObjectOfMesh == Node("Object3D", FALSE, 1, TRUE)
SkinnedMeshNode == Node("SkinnedMesh", TRUE, 0, FALSE)
BoneOfMesh == Node("Bone", FALSE, 1, TRUE)
NoNode == Node("none", FALSE, 0, FALSE)

Nodes == {MeshNode, BareMesh, EmptyGroup, HollowGroup,
          ObjectOfMesh, SkinnedMeshNode, BoneOfMesh}

\* a scene: its type, its top-level children, and whether it is an Object3D
\* (has traverse); NoScene stands for an undefined scene property
SceneOf(t, ch, o3d) ==
    [present |-> TRUE, type |-> t, children |-> ch, isObject3D |-> o3d]
NoScene ==
    [present |-> FALSE, type |-> "none", children |-> <<>>, isObject3D |-> FALSE]

ChildLists ==
    { <<>>, <<MeshNode>>, <<BareMesh>>, <<EmptyGroup>>, <<HollowGroup>>,
      <<ObjectOfMesh>>, <<SkinnedMeshNode>>, <<BoneOfMesh>>,
      <<EmptyGroup, MeshNode>>, <<BareMesh, EmptyGroup>> }

\* the object a decoder resolves with
Decoded(isNull, scene, dae, daeNodes, kin, geo, mat, t, ch) ==
    [isNull |-> isNull, scene |-> scene, dae |-> dae, daeNodes |-> daeNodes,
     kinematics |-> kin, geometries |-> geo, materials |-> mat,
     type |-> t, children |-> ch]

NullResult ==
    Decoded(TRUE, NoScene, FALSE, NoNode, FALSE, FALSE, FALSE, "none", <<>>)

\* GLTFLoader: { scene, scenes, animations, cameras, asset, parser, userData };
\* scene is undefined for an asset that declares no scene
GltfResult(scene) ==
    Decoded(FALSE, scene, FALSE, NoNode, FALSE, FALSE, FALSE, "none", <<>>)

GltfResults ==
    {NullResult, GltfResult(NoScene)}
        \cup { GltfResult(SceneOf("Group", ch, TRUE)) : ch \in ChildLists }

\* ColladaLoader: a scene, or the legacy shape with dae / kinematics
ColladaResults ==
    {NullResult}
        \cup { Decoded(FALSE, SceneOf("Scene", ch, TRUE), FALSE, NoNode, TRUE,
                       FALSE, FALSE, "none", <<>>) : ch \in ChildLists }
        \cup { Decoded(FALSE, NoScene, TRUE, n, k, FALSE, FALSE, "none", <<>>) :
                 n \in Nodes \cup {NoNode}, k \in BOOLEAN }
        \cup { Decoded(FALSE, NoScene, FALSE, NoNode, k, k, k, t, <<>>) :
                 k \in BOOLEAN, t \in {"none", "Scene"} }

HasScene(m) == m.scene.present

\* isColladaModel(model)
isColladaModel(m) ==
    /\ ~m.isNull
    /\ \/ m.dae /\ m.kinematics
       \/ m.geometries /\ m.materials /\ m.kinematics
       \/ HasScene(m) /\ m.scene.type = "Scene"
       \/ m.type = "Scene"

\* variant: a mesh counts without geometry
hasMeaningfulContentChildLoose(child) ==
    \/ child.type = "Mesh"
    \/ child.type \in {"Group", "Object3D"} /\ child.nChildren > 0

\* the predicate of scene.children.some(...)
hasMeaningfulContentChild(child) ==
    \/ child.type = "Mesh" /\ child.geometry
    \/ child.type \in {"Group", "Object3D"} /\ child.nChildren > 0

\* isValidModel(loadedModel)
isValidModel(m) ==
    IF ~m.isNull /\ ~HasScene(m) /\ isColladaModel(m) THEN TRUE
    ELSE IF m.isNull \/ ~HasScene(m) THEN FALSE
    ELSE IF Len(m.scene.children) = 0 THEN FALSE
    ELSE \E i \in 1..Len(m.scene.children) :
            hasMeaningfulContentChild(m.scene.children[i])

\* 'For DAE models, adapt the structure to match what's expected'
adaptDae(m) ==
    IF m.isNull THEN m
    ELSE IF HasScene(m) THEN m
    ELSE IF m.dae
        THEN [m EXCEPT !.scene =
                SceneOf("Scene",
                        IF m.daeNodes # NoNode THEN <<m.daeNodes>> ELSE <<>>,
                        TRUE)]
    ELSE [m EXCEPT !.scene = SceneOf(m.type, m.children, FALSE)]

-----------------------------------------------------------------------------
(* Bounds of the model                                                      *)

MaxLoads == 3      \* runs of the provider's load effect (the mount included)
MaxUploads == 2    \* calls of saveModelFile

LoadIds == 1..MaxLoads
UploadIds == 1..MaxUploads

-----------------------------------------------------------------------------
(* Locators                                                                 *)

NullUrl == <<>>

STADIUM_MODEL_PATH ==
    <<"/", "m", "o", "d", "e", "l", "s", "/", "s", "t", "a", "d", "i", "u",
      "m", ".", "g", "l", "b">>

getStadiumModelPath == STADIUM_MODEL_PATH

Digit(n) == CASE n = 1 -> "1" [] n = 2 -> "2" [] n = 3 -> "3" [] OTHER -> "4"

\* URL.createObjectURL(file): a fresh "blob:<origin>/<uuid>" for every call;
\* the file's name is no part of it
createObjectURL(u) == <<"b", "l", "o", "b", ":", Digit(u)>>

\* const modelPath = customModelUrl || getStadiumModelPath()
modelPathOf(url) == IF url # NullUrl THEN url ELSE getStadiumModelPath

\* const isDAE = modelPath.toLowerCase().endsWith('.dae')
isDAEPath(modelPath) == EndsWith(toLowerCase(modelPath), <<".", "d", "a", "e">>)

-----------------------------------------------------------------------------
(* ModelProvider state                                                      *)

\* the model state: id 0 is null, id l is the object load l decoded
ModelOf(id, result) == [id |-> id, result |-> result]
NoModel == ModelOf(0, NullResult)

LoadRec(path, captured) ==
    [modelPath |-> path,
     isDAE |-> isDAEPath(path),
     isMounted |-> TRUE,        \* the effect closure's isMounted
     captured |-> captured,     \* the model value the effect closure holds
     pc |-> "fetch",            \* fetch, blob, decode, done
     decoder |-> "none",        \* the loader that was started, if any
     outcome |-> "none",        \* what loadModel concluded: ready or an error
     cause |-> "none",          \* the branch that ended it in an error
     applied |-> FALSE]         \* whether it wrote the provider's state

IdleLoad ==
    [modelPath |-> NullUrl, isDAE |-> FALSE, isMounted |-> FALSE,
     captured |-> NoModel, pc |-> "idle", decoder |-> "none",
     outcome |-> "none", cause |-> "none", applied |-> FALSE]

\* the files the uploader is given
ValidImage ==
    GlbImage(<<103, 108, 84, 70>>, <<2, 0, 0, 0>>, <<24, 0, 0, 0>>,
             <<74, 83, 79, 78>>, 24)
BadImage ==
    GlbImage(<<70, 84, 108, 103>>, <<2, 0, 0, 0>>, <<24, 0, 0, 0>>,
             <<74, 83, 79, 78>>, 24)

UploadFiles ==
    { [name |-> <<"m", ".", "g", "l", "b">>, bytes |-> ValidImage],
      [name |-> <<"m", ".", "g", "l", "b">>, bytes |-> BadImage],
      [name |-> <<"m", ".", "d", "a", "e">>, bytes |-> BadImage],
      [name |-> <<"m", ".", "t", "x", "t">>, bytes |-> ValidImage] }

NoFile == [name |-> <<>>, bytes |-> <<>>]

IdleUpload ==
    [file |-> NoFile, pc |-> "idle", validation |-> NoResult,
     blobUrl |-> NullUrl, notified |-> 0]

\* no seat import under way
NoImport ==
    /\ importText = <<>>
    /\ importSource = "none"
    /\ importPc = "idle"
    /\ coordinates = <<>>
    /\ seats = <<>>

\* no triple given to the remaps
NoRemap ==
    remap = [input |-> <<>>, bulk |-> <<>>, twice |-> <<>>, perSeat |-> <<>>]

\* no seat map mounted, nothing stored for one
NoMap ==
    /\ availableSeats = <<>>
    /\ selectedSeat = <<>>
    /\ viewingMode = FALSE
    /\ isLoadingSeats = FALSE
    /\ fileSeatsLoaded = FALSE
    /\ localStorage = <<>>
    /\ editMode = <<>>
    /\ transformations = <<>>
    /\ pendingEffects = {}
    /\ rendered = <<>>
    /\ selectedSeatIndex = <<>>
    /\ isTransitioning = FALSE
    /\ cameraTarget = <<>>
    /\ timers = {}
    /\ late = {}

\* no list of coordinates given to calcScalingFactors
NoNorm == norm = [input |-> <<>>, factors |-> <<>>, base |-> <<>>]

\* no purchase made, no call of loadSeatsFromFile awaited
NoFlow == purchaseComplete = FALSE /\ fetches = <<>>

Init ==
    /\ vFile = NoFile
    /\ vResult = NoResult
    /\ customModelUrl = NullUrl
    /\ mounted = TRUE
    /\ isLoading = TRUE
    /\ error = Null
    /\ model = NoModel
    \* the mount runs the effect once: the first load, of the default model
    /\ loads = [l \in LoadIds |->
                  IF l = 1 THEN LoadRec(modelPathOf(NullUrl), NoModel)
                  ELSE IdleLoad]
    /\ nLoads = 1
    /\ released = [l \in LoadIds |-> 0]
    /\ exposed = {}
    /\ uploads = [u \in UploadIds |-> IdleUpload]
    /\ nUploads = 0
    /\ uploading = FALSE
    /\ uploadError = Null
    /\ NoImport
    /\ NoRemap
    /\ NoMap
    /\ NoNorm
    /\ NoFlow

-----------------------------------------------------------------------------
(* ModelProvider: the effect on [customModelUrl] and its cleanup            *)

\* the cleanup's traversal: dispose of the geometry, maps and material of
\* every mesh of the scene of the model the closure holds
disposeOf(m, rel) ==
    IF m.id # 0 /\ HasScene(m.result) /\ m.result.scene.isObject3D
    THEN [rel EXCEPT ![m.id] = @ + 1]
    ELSE rel

\* variant: the previous error survives the start of a load
errorKeptAtLoadStart(previous) == previous

\* setError(null) at the start of the effect
errorAtLoadStart(previous) == Null

\* return () => { isMounted = false; ...dispose... } of the current effect,
\* then the effect body for the new locator: setIsLoading(true),
\* setError(null), loadModel()
RunEffect(url) ==
    /\ nLoads < MaxLoads
    /\ loads' = [loads EXCEPT
                   ![nLoads].isMounted = FALSE,
                   ![nLoads + 1] = LoadRec(modelPathOf(url), model)]
    /\ released' = disposeOf(loads[nLoads].captured, released)
    /\ nLoads' = nLoads + 1
    /\ isLoading' = TRUE
    /\ error' = errorAtLoadStart(error)
    /\ UNCHANGED <<model, exposed>>

\* setCustomModelUrl(url): a re-render with a changed dependency re-runs the
\* effect; the same value, or an unmounted tree, changes nothing
SetCustomModelUrl(url) ==
    IF mounted /\ url # customModelUrl
    THEN /\ customModelUrl' = url
         /\ RunEffect(url)
    ELSE UNCHANGED <<customModelUrl, loads, released, nLoads, isLoading,
                     error, model, exposed>>

\* the provider unmounts: the current effect's cleanup runs
Unmount ==
    /\ mounted
    /\ mounted' = FALSE
    /\ loads' = [loads EXCEPT ![nLoads].isMounted = FALSE]
    /\ released' = disposeOf(loads[nLoads].captured, released)
    /\ UNCHANGED <<customModelUrl, isLoading, error, model, nLoads, exposed,
                   uploads, nUploads, uploading, uploadError>>
    /\ UNCHANGED <<glbVars, seatVars, remapVars, mapVars, normVars, flowVars>>

\* App: resetToDefaultModel (the button is rendered while customModelUrl is set)
ResetToDefaultModel ==
    /\ mounted
    /\ customModelUrl # NullUrl
    /\ nLoads < MaxLoads
    /\ SetCustomModelUrl(NullUrl)
    /\ UNCHANGED <<mounted, uploads, nUploads, uploading, uploadError>>
    /\ UNCHANGED <<glbVars, seatVars, remapVars, mapVars, normVars, flowVars>>

-----------------------------------------------------------------------------
(* ModelProvider: loadModel.  Each await is a step; what follows the last   *)
(* await of a branch runs to the end of loadModel in one step.              *)

\* variant: completions are applied whatever isMounted says
isMountedGuardIgnored(l) == TRUE

\* if (isMounted) before every write of the provider's state
isMountedGuard(l) == loads[l].isMounted

\* the writes of the success branch: setModel, setIsLoading(false),
\* setError(null)
ApplyReady(l, loadedModel) ==
    /\ model' = ModelOf(l, loadedModel)
    /\ isLoading' = FALSE
    /\ error' = Null
    /\ exposed' = exposed \cup {l}

\* variant: a failure records its reason and stays loading
ApplyErrorKeepsLoading(reason) ==
    /\ error' = reason
    /\ UNCHANGED <<isLoading, model, exposed>>

\* the writes of the failure branches: setError(reason), setIsLoading(false)
ApplyError(reason) ==
    /\ error' = reason
    /\ isLoading' = FALSE
    /\ UNCHANGED <<model, exposed>>

\* a load ends with an error: the validation's else branches, or the catch;
\* cause names the branch: fetch, decode, null (nothing loaded), empty (the
\* validation found no usable geometry)
Fail(l, cause, reason) ==
    /\ loads' = [loads EXCEPT ![l].pc = "done", ![l].outcome = reason,
                              ![l].cause = cause,
                              ![l].applied = isMountedGuard(l)]
    /\ IF isMountedGuard(l) THEN ApplyError(reason)
       ELSE UNCHANGED <<model, isLoading, error, exposed>>

\* variant: the validation failure reuses the decoder's reason
validationFailedReasonReused == "Error loading model"

\* new Error('Model validation failed - invalid structure')
validationFailedReason == "Model validation failed - invalid structure"

\* 'If we get here, we have a loaded model - validate it'
Conclude(l, loadedModel) ==
    IF loadedModel.isNull THEN Fail(l, "null", "No model was loaded")
    ELSE IF ~isValidModel(loadedModel)
        THEN Fail(l, "empty", validationFailedReason)
    ELSE /\ loads' = [loads EXCEPT ![l].pc = "done", ![l].outcome = "ready",
                                   ![l].applied = isMountedGuard(l)]
         /\ IF isMountedGuard(l) THEN ApplyReady(l, loadedModel)
            ELSE UNCHANGED <<model, isLoading, error, exposed>>

LoaderFrame ==
    /\ UNCHANGED <<customModelUrl, mounted, nLoads, released, uploads,
                   nUploads, uploading, uploadError>>
    /\ UNCHANGED <<glbVars, seatVars, remapVars, mapVars, normVars, flowVars>>

\* await fetch(modelPath) rejects (no response), or response.blob() does
FetchRejected(l) ==
    /\ l \in 1..nLoads
    /\ loads[l].pc \in {"fetch", "blob"}
    /\ Fail(l, "fetch", "Failed to fetch")
    /\ LoaderFrame

\* if (!response.ok) throw new Error(...)
FetchNotOk(l) ==
    /\ l \in 1..nLoads
    /\ loads[l].pc = "fetch"
    /\ Fail(l, "fetch", IF loads[l].isDAE THEN "Failed to fetch DAE model"
                        ELSE "Failed to fetch model")
    /\ LoaderFrame

\* the response is OK: the Collada branch starts its loader on modelPath,
\* the GLB/GLTF branch reads the blob first
FetchOk(l) ==
    /\ l \in 1..nLoads
    /\ loads[l].pc = "fetch"
    /\ loads' = IF loads[l].isDAE
                THEN [loads EXCEPT ![l].pc = "decode",
                                   ![l].decoder = "ColladaLoader"]
                ELSE [loads EXCEPT ![l].pc = "blob"]
    /\ UNCHANGED <<model, isLoading, error, exposed>>
    /\ LoaderFrame

\* const blob = await response.blob(); gltfLoader.load(modelUrl, ...)
BlobRead(l) ==
    /\ l \in 1..nLoads
    /\ loads[l].pc = "blob"
    /\ loads' = [loads EXCEPT ![l].pc = "decode", ![l].decoder = "GLTFLoader"]
    /\ UNCHANGED <<model, isLoading, error, exposed>>
    /\ LoaderFrame

\* the loader's onError callback: reject(error)
DecodeError(l) ==
    /\ l \in 1..nLoads
    /\ loads[l].pc = "decode"
    /\ Fail(l, "decode", "Error loading model")
    /\ LoaderFrame

\* the loader's onLoad callback: resolve(result), then the rest of loadModel
DecodeLoaded(l) ==
    /\ l \in 1..nLoads
    /\ loads[l].pc = "decode"
    /\ \E result \in (IF loads[l].decoder = "ColladaLoader"
                      THEN ColladaResults ELSE GltfResults) :
          Conclude(l, IF loads[l].isDAE THEN adaptDae(result) ELSE result)
    /\ LoaderFrame

-----------------------------------------------------------------------------
(* ModelUploader.saveModelFile and App.handleModelUploaded                  *)

UploaderFrame ==
    /\ UNCHANGED <<customModelUrl, mounted, isLoading, error, model, loads,
                   nLoads, released, exposed>>
    /\ UNCHANGED <<glbVars, seatVars, remapVars, mapVars, normVars, flowVars>>

\* handleDrop / handleInputChange: setUploadError(null), then saveModelFile up
\* to its first await: setUploading(true), validateGlbFile(file)
SaveModelFile(file) ==
    /\ mounted
    /\ nUploads < MaxUploads
    /\ nUploads' = nUploads + 1
    /\ uploads' = [uploads EXCEPT ![nUploads + 1] =
                     [IdleUpload EXCEPT !.file = file, !.pc = "validating"]]
    /\ uploading' = TRUE
    /\ uploadError' = Null
    /\ UploaderFrame

\* variant: the validation result is not consulted
acceptedAlways(validation) == TRUE

\* whether a validation result lets saveModelFile go on
accepted(validation) == validation.valid

\* const validation = await validateGlbFile(file); if (!validation.valid) ...
ValidationDone(u) ==
    /\ u \in 1..nUploads
    /\ uploads[u].pc = "validating"
    /\ LET validation == validateGlbFile(uploads[u].file)
       IN  IF threw(validation)
           THEN \* the catch clause of saveModelFile
                /\ uploads' = [uploads EXCEPT ![u].pc = "rejected"]
                /\ IF mounted
                   THEN /\ uploadError' = "Error uploading model"
                        /\ uploading' = FALSE
                   ELSE UNCHANGED <<uploadError, uploading>>
           ELSE IF ~accepted(validation)
           THEN /\ uploads' = [uploads EXCEPT ![u].pc = "rejected",
                                              ![u].validation = validation]
                /\ IF mounted
                   THEN uploadError' = validation.message /\ uploading' = FALSE
                   ELSE UNCHANGED <<uploadError, uploading>>
           ELSE /\ uploads' = [uploads EXCEPT ![u].pc = "reading",
                                              ![u].validation = validation]
                /\ UNCHANGED <<uploadError, uploading>>
    /\ UNCHANGED nUploads
    /\ UploaderFrame

\* reader.onload: const blobUrl = URL.createObjectURL(file); setTimeout(...)
ReaderLoaded(u) ==
    /\ u \in 1..nUploads
    /\ uploads[u].pc = "reading"
    /\ uploads' = [uploads EXCEPT ![u].pc = "timer",
                                  ![u].blobUrl = createObjectURL(u)]
    /\ UNCHANGED <<nUploads, uploading, uploadError>>
    /\ UploaderFrame

\* App.handleModelUploaded(blobUrl, fileName): setCustomModelUrl(blobUrl)
handleModelUploaded(blobUrl, fileName) == SetCustomModelUrl(blobUrl)

\* the timer callback: onModelUploaded(blobUrl, file.name), setUploading(false)
TimerFired(u) ==
    /\ u \in 1..nUploads
    /\ uploads[u].pc = "timer"
    /\ ~mounted \/ nLoads < MaxLoads
    /\ uploads' = [uploads EXCEPT ![u].pc = "done", ![u].notified = @ + 1]
    /\ handleModelUploaded(uploads[u].blobUrl, uploads[u].file.name)
    /\ uploading' = IF mounted THEN FALSE ELSE uploading
    /\ UNCHANGED <<mounted, nUploads, uploadError>>
    /\ UNCHANGED <<glbVars, seatVars, remapVars, mapVars, normVars, flowVars>>

-----------------------------------------------------------------------------
(* MiniSeatView: what the seat view renders for the provider's state        *)

\* const isColladaModel = !!model.scene && !(model.scene.isObject3D)
viewIsColladaModel(m) ==
    m.result.scene.present /\ ~m.result.scene.isObject3D

\* the predicate of model.scene.children.some(...) in StadiumModel
hasGeometryChild(child) ==
    \/ child.type = "Mesh"
    \/ child.type = "Group"
    \/ child.nChildren > 0

\* const hasGeometry = isColladaModel ? true : model?.scene?.children?.some(...)
hasGeometry(m) ==
    IF viewIsColladaModel(m) THEN TRUE
    ELSE /\ m.result.scene.present
         /\ \E i \in 1..Len(m.result.scene.children) :
               hasGeometryChild(m.result.scene.children[i])

\* variant: an error alone does not select the fallback
usesFallbackModelOnly(m, err) == m.id = 0

\* if (!model || error) return <FallbackModel />
usesFallback(m, err) == m.id = 0 \/ err # Null

\* StadiumModel: null while loading, the fallback scene, or the model's scene
StadiumModel ==
    IF isLoading THEN "null"
    ELSE IF usesFallback(model, error) THEN "FallbackModel"
    ELSE IF ~hasGeometry(model) THEN "FallbackModel"
    ELSE "primitive"

\* MiniSeatView: the loading overlay, or the canvas that holds StadiumModel
MiniSeatView == IF isLoading THEN "LoadingOverlay" ELSE StadiumModel

-----------------------------------------------------------------------------
(* The application                                                          *)

Next ==
    \/ \E l \in LoadIds : FetchRejected(l)
    \/ \E l \in LoadIds : FetchNotOk(l)
    \/ \E l \in LoadIds : FetchOk(l)
    \/ \E l \in LoadIds : BlobRead(l)
    \/ \E l \in LoadIds : DecodeError(l)
    \/ \E l \in LoadIds : DecodeLoaded(l)
    \/ \E file \in UploadFiles : SaveModelFile(file)
    \/ \E u \in UploadIds : ValidationDone(u)
    \/ \E u \in UploadIds : ReaderLoaded(u)
    \/ \E u \in UploadIds : TimerFired(u)
    \/ ResetToDefaultModel
    \/ Unmount

Spec == Init /\ [][Next]_vars

-----------------------------------------------------------------------------
(* validateGlbFile on its own: every file of Files, validated once          *)

InitGlb ==
    /\ vFile \in Files
    /\ vResult = NoResult
    /\ customModelUrl = NullUrl
    /\ mounted = TRUE
    /\ isLoading = TRUE
    /\ error = Null
    /\ model = NoModel
    /\ loads = [l \in LoadIds |->
                  IF l = 1 THEN LoadRec(modelPathOf(NullUrl), NoModel)
                  ELSE IdleLoad]
    /\ nLoads = 1
    /\ released = [l \in LoadIds |-> 0]
    /\ exposed = {}
    /\ uploads = [u \in UploadIds |-> IdleUpload]
    /\ nUploads = 0
    /\ uploading = FALSE
    /\ uploadError = Null
    /\ NoImport
    /\ NoRemap
    /\ NoMap
    /\ NoNorm
    /\ NoFlow

Validate ==
    /\ vResult = NoResult
    /\ vResult' = validateGlbFile(vFile)
    /\ UNCHANGED vFile
    /\ UNCHANGED <<appVars, seatVars, remapVars, mapVars, normVars, flowVars>>

NextGlb == Validate

SpecGlb == InitGlb /\ [][NextGlb]_vars

\* the uploader is given the file: saveModelFile up to the validation result
NextUpload ==
    \/ SaveModelFile(vFile)
    \/ \E u \in UploadIds : ValidationDone(u)

SpecUpload == InitGlb /\ [][NextUpload]_vars

-----------------------------------------------------------------------------
(* seatCoordinateParser: numbers and text                                   *)
(* A Number is NaN or a decimal kept in hundredths (Scale), which is exact  *)
(* for the inputs used: they carry at most two fractional digits.           *)

Scale == 100

Num(v) == [nan |-> FALSE, v |-> v]
NaN == [nan |-> TRUE, v |-> 0]

IsDigit(c) == c \in {"0", "1", "2", "3", "4", "5", "6", "7", "8", "9"}

DigitVal(c) ==
    CASE c = "0" -> 0 [] c = "1" -> 1 [] c = "2" -> 2 [] c = "3" -> 3
      [] c = "4" -> 4 [] c = "5" -> 5 [] c = "6" -> 6 [] c = "7" -> 7
      [] c = "8" -> 8 [] OTHER -> 9

\* white space as trim() and \s see it
IsWhite(c) == c \in {" ", "\t", "\r", "\n"}

\* String.prototype.trim
trim(s) ==
    LET inked == {i \in 1..Len(s) : ~IsWhite(s[i])}
    IN  IF inked = {} THEN <<>>
        ELSE LET first == CHOOSE i \in inked : \A j \in inked : i <= j
                 last == CHOOSE i \in inked : \A j \in inked : j <= i
             IN  SubSeq(s, first, last)

\* String.prototype.split(sep) for a one-character separator
RECURSIVE split(_, _)
split(s, sep) ==
    LET at == {i \in 1..Len(s) : s[i] = sep}
    IN  IF at = {} THEN <<s>>
        ELSE LET first == CHOOSE i \in at : \A j \in at : i <= j
             IN  <<SubSeq(s, 1, first - 1)>>
                     \o split(SubSeq(s, first + 1, Len(s)), sep)

\* the number of consecutive digits of s from position i on
DigitRun(s, i) ==
    LET runs == {n \in 0..(Len(s) - i + 1) :
                    \A k \in i..(i + n - 1) : IsDigit(s[k])}
    IN  CHOOSE n \in runs : \A m \in runs : m <= n

RECURSIVE IntOf(_)
IntOf(digits) ==
    IF digits = <<>> THEN 0
    ELSE IntOf(SubSeq(digits, 1, Len(digits) - 1)) * 10
             + DigitVal(digits[Len(digits)])

\* the first two fractional digits, in hundredths
FractionOf(digits) ==
    IF Len(digits) = 0 THEN 0
    ELSE IF Len(digits) = 1 THEN DigitVal(digits[1]) * 10
    ELSE DigitVal(digits[1]) * 10 + DigitVal(digits[2])

\* parseFloat(s): skips leading white space, reads the longest prefix that is
\* a decimal literal (sign, digits, '.', digits), ignores what follows it,
\* and is NaN when there is no such prefix
parseFloat(s) ==
    LET t == trim(s)
        signed == Len(t) >= 1 /\ t[1] \in {"-", "+"}
        start == IF signed THEN 2 ELSE 1
        nInt == DigitRun(t, start)
        dotAt == start + nInt
        dotted == dotAt <= Len(t) /\ t[dotAt] = "."
        nFrac == IF dotted THEN DigitRun(t, dotAt + 1) ELSE 0
        magnitude == IntOf(SubSeq(t, start, start + nInt - 1)) * Scale
                         + FractionOf(SubSeq(t, dotAt + 1, dotAt + nFrac))
    IN  IF nInt + nFrac = 0 THEN NaN
        ELSE IF signed /\ t[1] = "-" THEN Num(0 - magnitude)
        ELSE Num(magnitude)

VectorOpen == <<"<", "V", "e", "c", "t", "o", "r">>

\* the class [-\d\.\s,] of the pattern
InGroupClass(c) == c = "-" \/ IsDigit(c) \/ c = "." \/ IsWhite(c) \/ c = ","

\* the length of the longest run of characters satisfying the class from i on
WhiteRun(s, i) ==
    LET runs == {n \in 0..(Len(s) - i + 1) :
                    \A k \in i..(i + n - 1) : IsWhite(s[k])}
    IN  CHOOSE n \in runs : \A m \in runs : m <= n

GroupRun(s, i) ==
    LET runs == {n \in 0..(Len(s) - i + 1) :
                    \A k \in i..(i + n - 1) : InGroupClass(s[k])}
    IN  CHOOSE n \in runs : \A m \in runs : m <= n

\* whether /<Vector\s*\(([-\d\.\s,]+)\)>/ matches with '<' at position i
MatchesAt(line, i) ==
    LET open == i + 7 + WhiteRun(line, i + 7)
        n == GroupRun(line, open + 1)
    IN  /\ i + 6 <= Len(line)
        /\ SubSeq(line, i, i + 6) = VectorOpen
        /\ open <= Len(line)
        /\ line[open] = "("
        /\ n >= 1
        /\ open + n + 2 <= Len(line)
        /\ line[open + n + 1] = ")"
        /\ line[open + n + 2] = ">"

NoMatch == [matched |-> FALSE, group |-> <<>>]

\* line.match(/<Vector\s*\(([-\d\.\s,]+)\)>/): the leftmost match and its group
match(line) ==
    LET starts == {i \in 1..Len(line) : MatchesAt(line, i)}
    IN  IF starts = {} THEN NoMatch
        ELSE LET i == CHOOSE k \in starts : \A j \in starts : k <= j
                 open == i + 7 + WhiteRun(line, i + 7)
             IN  [matched |-> TRUE,
                  group |-> SubSeq(line, open + 1,
                                   open + GroupRun(line, open + 1))]

-----------------------------------------------------------------------------
(* seatCoordinateParser: parseVectorCoordinates and the two remaps          *)

Point(x, y, z) == [x |-> x, y |-> y, z |-> z]

\* the body of lines.forEach: the point a line contributes, if any
lineCoordinates(rawLine) ==
    LET line == trim(rawLine)
    IN  IF line = <<>> \/ ~Includes(line, VectorOpen) THEN <<>>
        ELSE LET m == match(line)
             IN  IF ~m.matched \/ m.group = <<>> THEN <<>>
                 ELSE LET fields == split(m.group, ",")
                          parts == [k \in 1..Len(fields) |->
                                       parseFloat(trim(fields[k]))]
                      IN  IF Len(parts) # 3 THEN <<>>
                          ELSE <<Point(parts[1], parts[2], parts[3])>>

RECURSIVE forEachLine(_)
forEachLine(lines) ==
    IF lines = <<>> THEN <<>>
    ELSE lineCoordinates(Head(lines)) \o forEachLine(Tail(lines))

\* parseVectorCoordinates(text)
parseVectorCoordinates(text) ==
    IF text = <<>> THEN <<>>
    ELSE forEachLine(split(text, "\n"))

\* -n
negate(n) == IF n.nan THEN NaN ELSE Num(0 - n.v)

\* variant: the bulk remap with the sign flip of the per-seat remap
convertCoordFlipped(coord) == Point(coord.x, coord.z, negate(coord.y))

\* the callback of coordinates.map in convertToThreeCoordinates
convertCoord(coord) == Point(coord.x, coord.z, coord.y)

\* convertToThreeCoordinates(coordinates)
convertToThreeCoordinates(coords) ==
    [i \in 1..Len(coords) |-> convertCoord(coords[i])]

\* variant: the per-seat remap without its sign flip
convertBlenderUnsigned(blenderCoords) ==
    Point(blenderCoords.x, blenderCoords.z, blenderCoords.y)

\* modelLoader: convertBlenderToThreeCoordinates(blenderCoords)
convertBlenderToThreeCoordinates(blenderCoords) ==
    Point(blenderCoords.x, blenderCoords.z, negate(blenderCoords.y))

-----------------------------------------------------------------------------
(* seatCoordinateParser.generateSeatsFromCoordinates and seatLoader's       *)
(* enhanceSeats.  row, number, price and sectionIndex are Numbers whose v   *)
(* is the integer itself.                                                   *)

Whole(k) == [nan |-> FALSE, v |-> k]

absv(v) == IF v < 0 THEN 0 - v ELSE v

\* Math.floor(Math.abs(c) * 10)
floorAbsTimes10(c) ==
    IF c.nan THEN NaN ELSE Whole((absv(c.v) * 10) \div Scale)

plus(n, k) == IF n.nan THEN NaN ELSE Whole(n.v + k)

mod10(n) == IF n.nan THEN NaN ELSE Whole(n.v % 10)

DigitChar(d) ==
    CASE d = 0 -> "0" [] d = 1 -> "1" [] d = 2 -> "2" [] d = 3 -> "3"
      [] d = 4 -> "4" [] d = 5 -> "5" [] d = 6 -> "6" [] d = 7 -> "7"
      [] d = 8 -> "8" [] OTHER -> "9"

RECURSIVE digitsOf(_)
digitsOf(k) ==
    IF k < 10 THEN <<DigitChar(k)>>
    ELSE digitsOf(k \div 10) \o <<DigitChar(k % 10)>>

\* `${n}` for a row, a number: the decimal digits, or NaN
toText(n) == IF n.nan THEN <<"N", "a", "N">> ELSE digitsOf(n.v)

\* `${section}`
sectionText(section) ==
    IF section = "undefined"
    THEN <<"u", "n", "d", "e", "f", "i", "n", "e", "d">>
    ELSE <<section>>

\* the callback of coordinates.map in generateSeatsFromCoordinates
generateSeat(coord, index) ==
    LET section == IF ~coord.x.nan /\ coord.x.v > 0 THEN "B" ELSE "A"
        row == plus(mod10(floorAbsTimes10(coord.y)), 1)
        number == plus(mod10(floorAbsTimes10(coord.x)), 1)
        price == IF coord.z.nan THEN NaN
                 ELSE Whole(100 + (absv(coord.z.v) * 50) \div Scale)
    IN  [id |-> sectionText(section) \o toText(row) \o toText(number),
         section |-> section, row |-> row, number |-> number,
         price |-> price, coordinates |-> coord]

\* generateSeatsFromCoordinates(coordinates)
generateSeatsFromCoordinates(coords) ==
    [i \in 1..Len(coords) |-> generateSeat(coords[i], i - 1)]

\* parseAndGenerateSeats(text)
parseAndGenerateSeats(text) ==
    generateSeatsFromCoordinates(
        convertToThreeCoordinates(parseVectorCoordinates(text)))

sectionMap(quadrant) ==
    CASE quadrant = "topLeft" -> <<"A", "B", "C">>
      [] quadrant = "topRight" -> <<"D", "E", "F">>
      [] quadrant = "bottomLeft" -> <<"G", "H", "J">>
      [] OTHER -> <<"K", "L", "M">>

\* maxDistance in hundredths; the last tier's is Infinity
priceTiers ==
    << [maxDistance |-> 20, infinite |-> FALSE, price |-> 250],
       [maxDistance |-> 40, infinite |-> FALSE, price |-> 200],
       [maxDistance |-> 60, infinite |-> FALSE, price |-> 150],
       [maxDistance |-> 80, infinite |-> FALSE, price |-> 120],
       [maxDistance |-> 0, infinite |-> TRUE, price |-> 100] >>

lessThanZero(n) == ~n.nan /\ n.v < 0

quadrantOf(coord) ==
    IF lessThanZero(coord.x)
    THEN (IF lessThanZero(coord.y) THEN "bottomLeft" ELSE "topLeft")
    ELSE (IF lessThanZero(coord.y) THEN "bottomRight" ELSE "topRight")

\* Math.pow(x, 2) + Math.pow(y, 2), the square of distance, in units of
\* 1 / Scale^2
distanceSquared(coord) ==
    IF coord.x.nan \/ coord.y.nan THEN NaN
    ELSE Whole(coord.x.v * coord.x.v + coord.y.v * coord.y.v)

\* distance <= tier.maxDistance
withinTier(dsq, tier) ==
    /\ ~dsq.nan
    /\ tier.infinite \/ dsq.v <= tier.maxDistance * tier.maxDistance

\* Math.floor(distance * n)
floorDistanceTimes(dsq, n) ==
    IF dsq.nan THEN NaN
    ELSE Whole(CHOOSE k \in 0..((n * n * dsq.v) \div (Scale * Scale) + 1) :
                  /\ k * k * Scale * Scale <= n * n * dsq.v
                  /\ n * n * dsq.v < (k + 1) * (k + 1) * Scale * Scale)

\* Math.min(a, b)
mathMin(a, b) ==
    IF a.nan \/ b.nan THEN NaN ELSE IF a.v <= b.v THEN a ELSE b

\* the callback of basicSeats.map in enhanceSeats
enhanceSeat(seat, index) ==
    LET quadrant == quadrantOf(seat.coordinates)
        distance == distanceSquared(seat.coordinates)
        tiers == {k \in 1..Len(priceTiers) : withinTier(distance, priceTiers[k])}
        price == IF tiers = {} THEN 100
                 ELSE priceTiers[CHOOSE k \in tiers : \A j \in tiers : k <= j].price
        sectionList == sectionMap(quadrant)
        sectionIndex == mathMin(floorDistanceTimes(distance, Len(sectionList)),
                                Whole(Len(sectionList) - 1))
        section == IF sectionIndex.nan THEN "undefined"
                   ELSE sectionList[sectionIndex.v + 1]
        row == plus(floorAbsTimes10(seat.coordinates.y), 1)
        number == plus(floorAbsTimes10(seat.coordinates.x), 1)
    IN  [id |-> sectionText(section) \o toText(row) \o <<"-">> \o toText(number),
         section |-> section, row |-> row, number |-> number,
         price |-> Whole(price), coordinates |-> seat.coordinates,
         originalIndex |-> index]

\* enhanceSeats(basicSeats)
enhanceSeats(basicSeats) ==
    [i \in 1..Len(basicSeats) |-> enhanceSeat(basicSeats[i], i - 1)]

-----------------------------------------------------------------------------
(* The two remaps on their own: one triple, remapped by each                *)

\* the provider, the uploader and the validation as they are at the mount
AppAtMount ==
    /\ vFile = NoFile
    /\ vResult = NoResult
    /\ customModelUrl = NullUrl
    /\ mounted = TRUE
    /\ isLoading = TRUE
    /\ error = Null
    /\ model = NoModel
    /\ loads = [l \in LoadIds |->
                  IF l = 1 THEN LoadRec(modelPathOf(NullUrl), NoModel)
                  ELSE IdleLoad]
    /\ nLoads = 1
    /\ released = [l \in LoadIds |-> 0]
    /\ exposed = {}
    /\ uploads = [u \in UploadIds |-> IdleUpload]
    /\ nUploads = 0
    /\ uploading = FALSE
    /\ uploadError = Null

RemapValues == {-150, -5, 0, 30, 200}

Triples ==
    { Point(Num(a), Num(b), Num(c)) :
        a \in RemapValues, b \in RemapValues, c \in RemapValues }

InitRemap ==
    /\ AppAtMount
    /\ NoImport
    /\ NoMap
    /\ NoNorm
    /\ NoFlow
    /\ \E p \in Triples :
          remap = [input |-> <<p>>, bulk |-> <<>>, twice |-> <<>>,
                   perSeat |-> <<>>]

\* convertToThreeCoordinates([input])
RemapBulk ==
    /\ remap.bulk = <<>>
    /\ remap' = [remap EXCEPT !.bulk = convertToThreeCoordinates(remap.input)]
    /\ UNCHANGED <<glbVars, appVars, seatVars, mapVars, normVars, flowVars>>

\* convertToThreeCoordinates(convertToThreeCoordinates([input]))
RemapBulkAgain ==
    /\ remap.bulk # <<>>
    /\ remap.twice = <<>>
    /\ remap' = [remap EXCEPT !.twice = convertToThreeCoordinates(remap.bulk)]
    /\ UNCHANGED <<glbVars, appVars, seatVars, mapVars, normVars, flowVars>>

\* convertBlenderToThreeCoordinates(input)
RemapPerSeat ==
    /\ remap.perSeat = <<>>
    /\ remap' = [remap EXCEPT
                   !.perSeat = <<convertBlenderToThreeCoordinates(remap.input[1])>>]
    /\ UNCHANGED <<glbVars, appVars, seatVars, mapVars, normVars, flowVars>>

NextRemap ==
    \/ RemapBulk
    \/ RemapBulkAgain
    \/ RemapPerSeat

SpecRemap == InitRemap /\ [][NextRemap]_vars

-----------------------------------------------------------------------------
(* The seat import on its own: a text from coordinates.txt (seatLoader's    *)
(* loadSeatsFromFile) or from the importer's textarea (handleImport)        *)

MaxLines == 2      \* lines of an imported text

\* "<Vector (a, b, c)>"
VectorLine(a, b, c) ==
    VectorOpen \o <<" ", "(">> \o a \o <<",", " ">> \o b \o <<",", " ">> \o c
        \o <<")", ">">>

ImportLines ==
    { VectorLine(<<"-", "0", ".", "4">>, <<"-", "0", ".", "5">>,
                 <<"-", "0", ".", "3">>),
      <<"b", "a", "d", " ", "l", "i", "n", "e">>,
      VectorLine(<<"0", ".", "2">>, <<"0", ".", "1">>, <<"0", ".", "4">>),
      VectorLine(<<"0", ".", "2">>, <<>>, <<"0", ".", "4">>),
      VectorLine(<<"-">>, <<"0", ".", "1">>, <<"0", ".", "4">>),
      VectorOpen \o <<" ", "(", "0", ".", "2", ",", " ", "0", ".", "1", ")", ">">>,
      VectorLine(<<"1">>, <<"2">>, <<"3", ",", " ", "4">>),
      VectorLine(<<"0", ".", "2">>, <<"0">>, <<"0">>),
      <<" ", " ">> \o VectorOpen
          \o <<"(", "0", ".", "2", "1", ",", "0", ".", "9", ",", "0", ".", "4",
               "1", ")", ">", "\r">>,
      VectorLine(<<"1", ".", "5", ".", "2">>, <<"0">>, <<"-", "2">>),
      <<"s", "e", "a", "t", " ">>
          \o VectorLine(<<"-", "0", ".", "1">>, <<"0", ".", "3">>,
                        <<"0", ".", "1">>)
          \o <<" ", "e", "n", "d">>,
      VectorLine(<<"a">>, <<"b">>, <<"c">>),
      VectorLine(<<"0">>, <<"0">>, <<"0", ".", "8">>) }

RECURSIVE join(_)
join(lines) ==
    IF lines = <<>> THEN <<>>
    ELSE IF Len(lines) = 1 THEN lines[1]
    ELSE lines[1] \o <<"\n">> \o join(Tail(lines))

ImportTexts ==
    { join(lines) : lines \in UNION { [1..n -> ImportLines] : n \in 0..MaxLines } }

InitSeats ==
    /\ AppAtMount
    /\ NoRemap
    /\ NoMap
    /\ NoNorm
    /\ NoFlow
    /\ importText \in ImportTexts
    /\ importSource \in {"file", "paste"}
    /\ importPc = "text"
    /\ coordinates = <<>>
    /\ seats = <<>>

\* handleImport: if (!coordinates.trim()) return
ImportNothing ==
    /\ importPc = "text"
    /\ importSource = "paste"
    /\ trim(importText) = <<>>
    /\ importPc' = "returned"
    /\ UNCHANGED <<importText, importSource, coordinates, seats>>
    /\ UNCHANGED <<glbVars, appVars, remapVars, mapVars, normVars, flowVars>>

\* parseAndGenerateSeats: const parsedCoordinates = parseVectorCoordinates(text)
ParseVectorCoordinates ==
    /\ importPc = "text"
    /\ importSource = "paste" => trim(importText) # <<>>
    /\ coordinates' = parseVectorCoordinates(importText)
    /\ importPc' = "parsed"
    /\ UNCHANGED <<importText, importSource, seats>>
    /\ UNCHANGED <<glbVars, appVars, remapVars, mapVars, normVars, flowVars>>

\* const threeCoordinates = convertToThreeCoordinates(parsedCoordinates)
ConvertToThreeCoordinates ==
    /\ importPc = "parsed"
    /\ coordinates' = convertToThreeCoordinates(coordinates)
    /\ importPc' = "remapped"
    /\ UNCHANGED <<importText, importSource, seats>>
    /\ UNCHANGED <<glbVars, appVars, remapVars, mapVars, normVars, flowVars>>

\* return generateSeatsFromCoordinates(threeCoordinates)
GenerateSeatsFromCoordinates ==
    /\ importPc = "remapped"
    /\ seats' = generateSeatsFromCoordinates(coordinates)
    /\ importPc' = "generated"
    /\ UNCHANGED <<importText, importSource, coordinates>>
    /\ UNCHANGED <<glbVars, appVars, remapVars, mapVars, normVars, flowVars>>

\* loadSeatsFromFile: const enhancedSeats = enhanceSeats(seats); return it
EnhanceSeats ==
    /\ importPc = "generated"
    /\ importSource = "file"
    /\ seats' = enhanceSeats(seats)
    /\ importPc' = "done"
    /\ UNCHANGED <<importText, importSource, coordinates>>
    /\ UNCHANGED <<glbVars, appVars, remapVars, mapVars, normVars, flowVars>>

\* handleImport: if (seats && seats.length > 0) onSeatsGenerated(seats)
SeatsGenerated ==
    /\ importPc = "generated"
    /\ importSource = "paste"
    /\ importPc' = "done"
    /\ UNCHANGED <<importText, importSource, coordinates, seats>>
    /\ UNCHANGED <<glbVars, appVars, remapVars, mapVars, normVars, flowVars>>

NextSeats ==
    \/ ImportNothing
    \/ ParseVectorCoordinates
    \/ ConvertToThreeCoordinates
    \/ GenerateSeatsFromCoordinates
    \/ EnhanceSeats
    \/ SeatsGenerated

SpecSeats == InitSeats /\ [][NextSeats]_vars

-----------------------------------------------------------------------------
(* StadiumMap: values                                                       *)
(* A JavaScript value of the seat map is a Number kept as an exact fraction *)
(* n/d in lowest terms (d > 0), NaN, undefined or a boolean.  Arithmetic is *)
(* exact: the rounding of doubles is left out.                              *)

RECURSIVE gcd(_, _)
gcd(a, b) == IF b = 0 THEN a ELSE gcd(b, a % b)

Ratio(n, d) ==
    LET s == IF d < 0 THEN -1 ELSE 1
        g == gcd(absv(n), absv(d))
    IN  [t |-> "number", n |-> (s * n) \div g, d |-> (s * d) \div g]

Number(k) == Ratio(k, 1)

NotANumber == [t |-> "NaN", n |-> 0, d |-> 1]

undefined == [t |-> "undefined", n |-> 0, d |-> 1]

Boolean(b) == [t |-> "boolean", n |-> IF b THEN 1 ELSE 0, d |-> 1]

\* ToNumber, as the arithmetic operators apply it to their operands
ToNumber(v) ==
    CASE v.t = "number" -> v
      [] v.t = "boolean" -> Number(v.n)
      [] OTHER -> NotANumber

\* ToBoolean, as && applies it
ToBoolean(v) ==
    CASE v.t = "number" -> v.n # 0
      [] v.t = "boolean" -> v.n = 1
      [] OTHER -> FALSE

\* a + b
add(a, b) ==
    LET x == ToNumber(a)
        y == ToNumber(b)
    IN  IF x.t # "number" \/ y.t # "number" THEN NotANumber
        ELSE Ratio(x.n * y.d + y.n * x.d, x.d * y.d)

\* a * b
mul(a, b) ==
    LET x == ToNumber(a)
        y == ToNumber(b)
    IN  IF x.t # "number" \/ y.t # "number" THEN NotANumber
        ELSE Ratio(x.n * y.n, x.d * y.d)

\* -a
neg(a) == mul(Number(-1), a)

\* a - b
sub(a, b) == add(a, neg(b))

\* a / b for a divisor other than zero
div(a, b) ==
    LET x == ToNumber(a)
        y == ToNumber(b)
    IN  IF x.t # "number" \/ y.t # "number" THEN NotANumber
        ELSE Ratio(x.n * y.d, x.d * y.n)

\* a < b  (false when either side is NaN)
less(a, b) ==
    LET x == ToNumber(a)
        y == ToNumber(b)
    IN  /\ x.t = "number"
        /\ y.t = "number"
        /\ x.n * y.d < y.n * x.d

\* a > b
greater(a, b) == less(b, a)

\* Math.min(...list), Math.max(...list) for a list of Numbers, none empty
minOf(list) ==
    LET i == CHOOSE i \in 1..Len(list) :
                \A j \in 1..Len(list) : ~less(list[j], list[i])
    IN  list[i]

maxOf(list) ==
    LET i == CHOOSE i \in 1..Len(list) :
                \A j \in 1..Len(list) : ~less(list[i], list[j])
    IN  list[i]

\* Math.min(a, b)
min2(a, b) ==
    IF a.t # "number" \/ b.t # "number" THEN NotANumber
    ELSE IF less(b, a) THEN b ELSE a

-----------------------------------------------------------------------------
(* StadiumMap: calcScalingFactors and the position of a Seat                *)

\* xOffset: -centerX, zOffset: -centerZ
offsetOfCenter(center) == center

offsetOf(center) == neg(center)

\* calcScalingFactors(coordinates): a field the returned object does not
\* have reads as undefined
calcScalingFactors(coords) ==
    IF Len(coords) = 0
    THEN [scale |-> undefined, xScale |-> Number(1), zScale |-> Number(1),
          xOffset |-> Number(0), zOffset |-> Number(0)]
    ELSE LET xs == [i \in 1..Len(coords) |-> coords[i].x]
             zs == [i \in 1..Len(coords) |-> coords[i].z]
             minX == minOf(xs)
             maxX == maxOf(xs)
             minZ == minOf(zs)
             maxZ == maxOf(zs)
             width == sub(maxX, minX)
             height == sub(maxZ, minZ)
             xScale == IF greater(width, Number(0))
                       THEN div(Number(20), width) ELSE Number(1)
             zScale == IF greater(height, Number(0))
                       THEN div(Number(20), height) ELSE Number(1)
             scale == mul(min2(xScale, zScale), Ratio(95, 100))
             centerX == div(add(minX, maxX), Number(2))
             centerZ == div(add(minZ, maxZ), Number(2))
         IN  [scale |-> scale, xScale |-> undefined, zScale |-> undefined,
              xOffset |-> offsetOf(centerX), zOffset |-> offsetOf(centerZ)]

\* Math.cos and Math.sin of rotation * (Math.PI / 180), for the rotations
\* whose cosine and sine are rational: the multiples of 90 degrees
cos(rotation) ==
    IF rotation.t # "number" THEN NotANumber
    ELSE CASE rotation.d = 1 /\ rotation.n % 360 = 0 -> Number(1)
           [] rotation.d = 1 /\ rotation.n % 360 = 90 -> Number(0)
           [] rotation.d = 1 /\ rotation.n % 360 = 180 -> Number(-1)
           [] rotation.d = 1 /\ rotation.n % 360 = 270 -> Number(0)

sin(rotation) ==
    IF rotation.t # "number" THEN NotANumber
    ELSE CASE rotation.d = 1 /\ rotation.n % 360 = 0 -> Number(0)
           [] rotation.d = 1 /\ rotation.n % 360 = 90 -> Number(1)
           [] rotation.d = 1 /\ rotation.n % 360 = 180 -> Number(0)
           [] rotation.d = 1 /\ rotation.n % 360 = 270 -> Number(-1)

\* Seat: basePosition
basePosition(position, t) ==
    <<mul(add(position[1], t.baseOffset.x), t.baseScale),
      Number(1),
      mul(add(position[3], t.baseOffset.z), t.baseScale)>>

\* Seat: transformedPosition, the position of the seat's group
transformedPositionUnmirrored(position, t) ==
    LET base == basePosition(position, t)
        flippedX == base[1]
        flippedZ == base[3]
        rotatedX == sub(mul(flippedX, cos(t.rotation)),
                        mul(flippedZ, sin(t.rotation)))
        rotatedZ == add(mul(flippedX, sin(t.rotation)),
                        mul(flippedZ, cos(t.rotation)))
    IN  <<add(mul(rotatedX, t.scale), t.translateX),
          base[2],
          add(mul(rotatedZ, t.scale), t.translateY)>>

transformedPosition(position, t) ==
    LET base == basePosition(position, t)
        flippedX == base[1]
        flippedZ == neg(base[3])
        rotatedX == sub(mul(flippedX, cos(t.rotation)),
                        mul(flippedZ, sin(t.rotation)))
        rotatedZ == add(mul(flippedX, sin(t.rotation)),
                        mul(flippedZ, cos(t.rotation)))
    IN  <<add(mul(rotatedX, t.scale), t.translateX),
          base[2],
          add(mul(rotatedZ, t.scale), t.translateY)>>

-----------------------------------------------------------------------------
(* StadiumMap: durable storage                                              *)
(* localStorage holds, per key, no entry (<<>>) or one text (<<text>>).     *)

STORAGE_KEYS ==
    [EDIT_MODE |-> "stadium_edit_mode",
     SCALE |-> "stadium_scale",
     ROTATION |-> "stadium_rotation",
     TRANSLATE_X |-> "stadium_translate_x",
     TRANSLATE_Y |-> "stadium_translate_y"]

StorageKeys == {STORAGE_KEYS[f] : f \in DOMAIN STORAGE_KEYS}

jsNull == [t |-> "null", n |-> 0, d |-> 1]

RECURSIVE pow10(_)
pow10(k) == IF k = 0 THEN 1 ELSE 10 * pow10(k - 1)

\* JSON.parse(text) for the literals true, false, null and a decimal number:
\* ok is false where JSON.parse throws a SyntaxError
JSONparse(text) ==
    LET negative == Len(text) >= 1 /\ text[1] = "-"
        start == IF negative THEN 2 ELSE 1
        nInt == DigitRun(text, start)
        dotAt == start + nInt
        dotted == dotAt <= Len(text) /\ text[dotAt] = "."
        nFrac == IF dotted THEN DigitRun(text, dotAt + 1) ELSE 0
        end == IF dotted THEN dotAt + nFrac ELSE dotAt - 1
        isNumber == nInt >= 1 /\ (dotted => nFrac >= 1) /\ end = Len(text)
        magnitude == IntOf(SubSeq(text, start, dotAt - 1)) * pow10(nFrac)
                         + IntOf(SubSeq(text, dotAt + 1, dotAt + nFrac))
    IN  CASE text = <<"t", "r", "u", "e">> ->
                [ok |-> TRUE, value |-> Boolean(TRUE)]
          [] text = <<"f", "a", "l", "s", "e">> ->
                [ok |-> TRUE, value |-> Boolean(FALSE)]
          [] text = <<"n", "u", "l", "l">> ->
                [ok |-> TRUE, value |-> jsNull]
          [] isNumber ->
                [ok |-> TRUE,
                 value |-> Ratio(IF negative THEN 0 - magnitude ELSE magnitude,
                                 pow10(nFrac))]
          [] OTHER -> [ok |-> FALSE, value |-> undefined]

\* JSON.stringify(value); a Number is written with the digits it needs, which
\* are at most two after the point for the values the map works with
JSONstringifyTruncated(v) ==
    CASE v.t = "boolean" ->
            IF v.n = 1 THEN <<"t", "r", "u", "e">>
            ELSE <<"f", "a", "l", "s", "e">>
      [] v.t = "number" ->
            (IF v.n < 0 THEN <<"-">> ELSE <<>>) \o digitsOf(absv(v.n) \div v.d)
      [] v.t = "undefined" ->
            <<"u", "n", "d", "e", "f", "i", "n", "e", "d">>
      [] OTHER -> <<"n", "u", "l", "l">>

JSONstringify(v) ==
    CASE v.t = "boolean" ->
            IF v.n = 1 THEN <<"t", "r", "u", "e">>
            ELSE <<"f", "a", "l", "s", "e">>
      [] v.t = "number" ->
            LET h == (absv(v.n) * 100) \div v.d
                frac == h % 100
                fracText ==
                    IF frac = 0 THEN <<>>
                    ELSE IF frac % 10 = 0 THEN <<".", DigitChar(frac \div 10)>>
                    ELSE <<".", DigitChar(frac \div 10), DigitChar(frac % 10)>>
            IN  (IF v.n < 0 THEN <<"-">> ELSE <<>>)
                    \o digitsOf(h \div 100) \o fracText
      [] v.t = "undefined" ->
            <<"u", "n", "d", "e", "f", "i", "n", "e", "d">>
      [] OTHER -> <<"n", "u", "l", "l">>

\* loadSavedValue(key, defaultValue)
loadSavedValueUnguarded(storage, key, defaultValue) ==
    IF storage[key] = <<>> THEN defaultValue
    ELSE JSONparse(storage[key][1]).value

loadSavedValue(storage, key, defaultValue) ==
    IF storage[key] = <<>> THEN defaultValue
    ELSE LET parsed == JSONparse(storage[key][1])
         IN  IF parsed.ok THEN parsed.value ELSE defaultValue

\* localStorage.setItem(key, text)
setItem(storage, key, text) == [storage EXCEPT ![key] = <<text>>]

\* useState: the transformations of a new StadiumMap
initialTransformations(storage) ==
    [scale |-> loadSavedValue(storage, STORAGE_KEYS.SCALE, Number(1)),
     rotation |-> loadSavedValue(storage, STORAGE_KEYS.ROTATION, Number(0)),
     translateX |-> loadSavedValue(storage, STORAGE_KEYS.TRANSLATE_X, Number(0)),
     translateY |-> loadSavedValue(storage, STORAGE_KEYS.TRANSLATE_Y, Number(0)),
     baseScale |-> Number(1),
     baseOffset |-> [x |-> Number(0), z |-> Number(0)]]

\* useState: the edit mode of a new StadiumMap
initialEditMode(storage) ==
    loadSavedValue(storage, STORAGE_KEYS.EDIT_MODE, Boolean(TRUE))

\* parseFloat(e.target.value) as a value of the map
sliderFloat(text) ==
    LET n == parseFloat(text)
    IN  IF n.nan THEN NotANumber ELSE Ratio(n.v, Scale)

\* parseInt(e.target.value): sign and digits, nothing of what follows them
parseInt(text) ==
    LET t == trim(text)
        signed == Len(t) >= 1 /\ t[1] \in {"-", "+"}
        start == IF signed THEN 2 ELSE 1
        nInt == DigitRun(t, start)
        magnitude == IntOf(SubSeq(t, start, start + nInt - 1))
    IN  IF nInt = 0 THEN NotANumber
        ELSE IF signed /\ t[1] = "-" THEN Number(0 - magnitude)
        ELSE Number(magnitude)

-----------------------------------------------------------------------------
(* The seat map (StadiumMap) in the application: the seat set and the       *)
(* selection App hands to it, its transformations and their durable copy.   *)
(* A seat is kept as its id and its coordinates.  rendered holds, per Seat  *)
(* of the last commit, the seat, the transformations it was given and the   *)
(* position of its group; it is empty while no StadiumMap is mounted.       *)
(* setViewKey(prevKey => prevKey + 1) is modelled by what the new key does: *)
(* React unmounts the StadiumMap and mounts a new one.                      *)

MapSeat(id, x, y, z) ==
    [id |-> id,
     coordinates |-> [x |-> Number(x), y |-> Number(y), z |-> Number(z)]]

DEFAULT_SEATS ==
    <<MapSeat("A1", -5, 2, 10), MapSeat("A2", -3, 2, 10),
      MapSeat("B1", 5, 2, 10), MapSeat("B2", 3, 2, 10),
      MapSeat("C1", -7, 5, 15), MapSeat("C2", 7, 5, 15)>>

\* seat sets an import or coordinates.txt yields: one seat; two seats of one
\* row
SingleSeat == <<MapSeat("C31-2", 3, 2, -12)>>

RowOfSeats == <<MapSeat("A11-5", -2, 1, 5), MapSeat("A11-6", 2, 1, 5)>>

SeatSets == {DEFAULT_SEATS, SingleSeat, RowOfSeats}

\* the seats of the map that get selected: the first of the list
SelectedIndexes == {1}

\* texts a storage entry may hold when the application starts
TextFalse == <<"f", "a", "l", "s", "e">>
TextCorrupt == <<"{", "1", ".", "5">>
TextScale == <<"1", ".", "5">>
TextRotation == <<"9", "0">>
TextTranslateX == <<"-", "1", "0">>
TextTranslateY == <<"0", ".", "5">>
TextScaleNegative == <<"-", "1">>
TextRotationFull == <<"3", "6", "0">>

Stored(e, s, r, x, y) ==
    [k \in StorageKeys |->
        CASE k = STORAGE_KEYS.EDIT_MODE -> e
          [] k = STORAGE_KEYS.SCALE -> s
          [] k = STORAGE_KEYS.ROTATION -> r
          [] k = STORAGE_KEYS.TRANSLATE_X -> x
          [] OTHER -> y]

NoEntries == [k \in StorageKeys |-> <<>>]

SavedSession ==
    Stored(<<TextFalse>>, <<TextScale>>, <<TextRotation>>,
           <<TextTranslateX>>, <<TextTranslateY>>)

\* what storage may hold at startup: nothing; a saved session; a saved
\* session with one entry removed, replaced by a text that does not parse,
\* or by a number no slider produces
StoredSessions ==
    {NoEntries, SavedSession,
     [NoEntries EXCEPT ![STORAGE_KEYS.EDIT_MODE] = <<TextCorrupt>>],
     [SavedSession EXCEPT ![STORAGE_KEYS.SCALE] = <<TextScaleNegative>>],
     [SavedSession EXCEPT ![STORAGE_KEYS.ROTATION] = <<TextRotationFull>>]}
        \cup {[SavedSession EXCEPT ![k] = <<>>] : k \in StorageKeys}
        \cup {[SavedSession EXCEPT ![k] = <<TextCorrupt>>] :
                 k \in StorageKeys \ {STORAGE_KEYS.EDIT_MODE}}

\* values of the range inputs (e.target.value)
ScaleInputs == {<<"2">>}
RotationInputs == {<<"2", "7", "0">>}
TranslateXInputs == {<<"-", "1", "0">>}
TranslateYInputs == {<<"0", ".", "5">>}

\* App renders the StadiumMap unless seats are loading or the expanded view
\* is open (the purchase confirmation, which replaces both, is left out)
mapShown(loading, viewing) == ~loading /\ ~viewing

\* seats.map(...): one Seat per seat, each given the same transformations
Render(seatList, t) ==
    [i \in 1..Len(seatList) |->
        [seat |-> seatList[i],
         transformations |-> t,
         position |-> transformedPosition(
                          <<seatList[i].coordinates.x,
                            seatList[i].coordinates.y,
                            seatList[i].coordinates.z>>, t)]]

\* seats.findIndex(seat => String(seat.id) === String(seatId)), 1-based;
\* 0 where findIndex returns -1
findSeatIndexById(seatList, seatId) ==
    LET hits == {i \in 1..Len(seatList) : seatList[i].id = seatId}
    IN  IF hits = {} THEN 0
        ELSE CHOOSE i \in hits : \A j \in hits : i <= j

\* A pending timer: kind is "click" (Seat, 50 ms, held in clickTimeoutRef),
\* "select" (200 ms, held in selectTimeoutRef), "inner" (100 ms, held in no
\* ref) or "transition" (500 ms, held in transitionTimeoutRef); index, seat,
\* target and transitioning are what its callback closes over; live says
\* that the StadiumMap that set it is still mounted.  Timers fire in the
\* order of their deadlines: after holds the indexes of the Seats whose
\* click timer was pending when this longer timer was set and still is, and
\* which therefore fires first.
Timer(kind, index, seat, target, transitioning, live, after) ==
    [kind |-> kind, index |-> index, seat |-> seat, target |-> target,
     transitioning |-> transitioning, live |-> live, after |-> after]

\* the indexes of the Seats with a pending click timer
clicksPending(pending) == {tm.index : tm \in {p \in pending : p.kind = "click"}}

\* the click timers of the Seats at gone have fired or were cleared
withoutClicks(pending, gone) ==
    {[tm EXCEPT !.after = @ \ gone] :
        tm \in {p \in pending : ~(p.kind = "click" /\ p.index \in gone)}}

\* what an unmount leaves of the pending timers: the cleanups of StadiumMap
\* and of Seat clear the timers held in refs, any other timer stays and now
\* belongs to an unmounted instance
afterUnmount(pending) ==
    {[tm EXCEPT !.live = FALSE, !.after = {}] :
        tm \in {p \in pending : ~p.live \/ p.kind = "inner"}}

\* what a render with another seat list leaves of them: a Seat whose key
\* `seat-${index}-${seat.id}` is gone is unmounted and clears its click timer
afterRender(pending, seatList) ==
    withoutClicks(pending,
        {tm.index : tm \in {p \in pending :
                               /\ p.kind = "click"
                               /\ \/ p.index > Len(seatList)
                                  \/ seatList[p.index].id # p.seat.id}})

MapAtStart(storage) ==
    /\ availableSeats = DEFAULT_SEATS
    /\ selectedSeat = <<>>
    /\ viewingMode = FALSE
    /\ isLoadingSeats = TRUE
    /\ fileSeatsLoaded = FALSE
    /\ localStorage = storage
    /\ editMode = initialEditMode(storage)
    /\ transformations = initialTransformations(storage)
    /\ pendingEffects = {}
    /\ rendered = <<>>
    /\ selectedSeatIndex = <<>>
    /\ isTransitioning = FALSE
    /\ cameraTarget = <<>>
    /\ timers = {}
    /\ late = {}

\* a new StadiumMap is mounted: every useState takes its initial value
MountStadiumMap ==
    /\ editMode' = initialEditMode(localStorage')
    /\ transformations' = initialTransformations(localStorage')
    /\ selectedSeatIndex' = <<>>
    /\ isTransitioning' = FALSE
    /\ cameraTarget' = <<>>
    /\ pendingEffects' = {"mount", "seats", "selectedSeat"}
    /\ rendered' = Render(availableSeats', transformations')

\* the StadiumMap is unmounted and none takes its place
UnmountStadiumMap ==
    /\ pendingEffects' = {}
    /\ rendered' = <<>>
    /\ UNCHANGED <<editMode, transformations, selectedSeatIndex,
                   isTransitioning, cameraTarget>>

\* the mounted StadiumMap is rendered again with the props App now has
RenderAgain(effects) ==
    /\ UNCHANGED <<editMode, transformations, selectedSeatIndex,
                   isTransitioning, cameraTarget>>
    /\ pendingEffects' = pendingEffects \cup effects
    /\ rendered' = Render(availableSeats', transformations')

\* React commits the state App was given: remount says the key of the
\* StadiumMap changed, effects names the dependencies that changed
Commit(remount, effects) ==
    IF mapShown(isLoadingSeats', viewingMode')
    THEN IF remount \/ ~mapShown(isLoadingSeats, viewingMode)
         THEN MountStadiumMap
         ELSE RenderAgain(effects)
    ELSE UnmountStadiumMap

\* what that commit leaves of the pending timers
committedTimers(pending, remount) ==
    IF /\ mapShown(isLoadingSeats', viewingMode')
       /\ mapShown(isLoadingSeats, viewingMode)
       /\ ~remount
    THEN afterRender(pending, availableSeats')
    ELSE afterUnmount(pending)

InitMap ==
    /\ AppAtMount
    /\ NoImport
    /\ NoRemap
    /\ NoNorm
    /\ NoFlow
    /\ \E storage \in StoredSessions : MapAtStart(storage)

\* resetToFileSeats up to its await: setIsLoadingSeats(true)
ResetToFileSeats ==
    /\ fileSeatsLoaded
    /\ ~isLoadingSeats
    /\ isLoadingSeats' = TRUE
    /\ UNCHANGED <<availableSeats, selectedSeat, viewingMode, fileSeatsLoaded,
                   localStorage, late>>
    /\ Commit(FALSE, {})
    /\ timers' = committedTimers(timers, FALSE)
    /\ UNCHANGED <<glbVars, appVars, seatVars, remapVars, normVars, flowVars>>

\* loadSeats (the load of the mount) and resetToFileSeats from their await
\* on: loadSeatsFromFile gave loaded, which is empty when it found no seat
\* or failed
LoadSeatsSettled(loaded) ==
    /\ isLoadingSeats
    /\ isLoadingSeats' = FALSE
    /\ IF Len(loaded) > 0
       THEN /\ availableSeats' = loaded
            /\ IF fileSeatsLoaded
               THEN selectedSeat' = <<>> /\ UNCHANGED fileSeatsLoaded
               ELSE fileSeatsLoaded' = TRUE /\ UNCHANGED selectedSeat
       ELSE UNCHANGED <<availableSeats, selectedSeat, fileSeatsLoaded>>
    /\ UNCHANGED <<viewingMode, localStorage, late>>
    /\ Commit(FALSE, {})
    /\ timers' = committedTimers(timers, FALSE)
    /\ UNCHANGED <<glbVars, appVars, seatVars, remapVars, normVars, flowVars>>

\* handleSeatsImported(seats)
HandleSeatsImported(imported) ==
    /\ Len(imported) > 0
    /\ availableSeats' = imported
    /\ selectedSeat' = <<>>
    /\ UNCHANGED <<viewingMode, isLoadingSeats, fileSeatsLoaded, localStorage,
                   late>>
    /\ Commit(FALSE, {"seats"} \cup (IF selectedSeat # <<>>
                                     THEN {"selectedSeat"} ELSE {}))
    /\ timers' = committedTimers(timers, FALSE)
    /\ UNCHANGED <<glbVars, appVars, seatVars, remapVars, normVars, flowVars>>

\* resetToDefaultSeats: setAvailableSeats(DEFAULT_SEATS)
ResetToDefaultSeats ==
    /\ availableSeats' = DEFAULT_SEATS
    /\ UNCHANGED <<selectedSeat, viewingMode, isLoadingSeats, fileSeatsLoaded,
                   localStorage, late>>
    /\ Commit(FALSE, IF availableSeats # DEFAULT_SEATS THEN {"seats"} ELSE {})
    /\ timers' = committedTimers(timers, FALSE)
    /\ UNCHANGED <<glbVars, appVars, seatVars, remapVars, normVars, flowVars>>

\* App.handleSeatSelect(seat): setSelectedSeat(seat) and a new viewKey
AppHandleSeatSelect(seat) ==
    /\ selectedSeat' = <<seat>>
    /\ UNCHANGED <<availableSeats, viewingMode, isLoadingSeats,
                   fileSeatsLoaded, localStorage>>
    /\ Commit(TRUE, {})

\* a seat of the map is selected: StadiumMap.handleSeatSelect(index) has run
\* to its onSeatSelect(seats[index])
SeatSelected(index) ==
    /\ mapShown(isLoadingSeats, viewingMode)
    /\ pendingEffects = {}
    /\ index \in 1..Len(availableSeats)
    /\ AppHandleSeatSelect(availableSeats[index])
    /\ timers' = committedTimers(timers, TRUE)
    /\ UNCHANGED late
    /\ UNCHANGED <<glbVars, appVars, seatVars, remapVars, normVars, flowVars>>

\* handleViewToggle: the expand button needs a selected seat, the close
\* button is part of the expanded view
HandleViewToggle ==
    /\ viewingMode \/ selectedSeat # <<>>
    /\ viewingMode' = ~viewingMode
    /\ UNCHANGED <<availableSeats, selectedSeat, isLoadingSeats,
                   fileSeatsLoaded, localStorage, late>>
    /\ Commit(TRUE, {})
    /\ timers' = committedTimers(timers, TRUE)
    /\ UNCHANGED <<glbVars, appVars, seatVars, remapVars, normVars, flowVars>>

\* the effects of StadiumMap that are due after a commit: the base factors
\* on [seats], the selected index on [selectedSeat], and on the mount the
\* effect on [] that registers the cleanup of the timers
StadiumMapEffects ==
    /\ pendingEffects # {}
    /\ LET coords == [i \in 1..Len(availableSeats) |->
                        [x |-> availableSeats[i].coordinates.x,
                         z |-> availableSeats[i].coordinates.z]]
           factors == calcScalingFactors(coords)
           index == IF selectedSeat = <<>> THEN 0
                    ELSE findSeatIndexById(availableSeats, selectedSeat[1].id)
       IN  /\ transformations' =
                 IF "seats" \in pendingEffects
                 THEN [transformations EXCEPT
                         !.baseScale = factors.scale,
                         !.baseOffset = [x |-> factors.xOffset,
                                         z |-> factors.zOffset]]
                 ELSE transformations
           /\ selectedSeatIndex' =
                 IF "selectedSeat" \in pendingEffects /\ index # 0
                 THEN <<index>> ELSE selectedSeatIndex
    /\ pendingEffects' = {}
    /\ rendered' = Render(availableSeats, transformations')
    /\ UNCHANGED <<availableSeats, selectedSeat, viewingMode, isLoadingSeats,
                   fileSeatsLoaded, localStorage, editMode, isTransitioning,
                   cameraTarget, timers, late>>
    /\ UNCHANGED <<glbVars, appVars, seatVars, remapVars, normVars, flowVars>>

\* the transform controls are rendered only in edit mode
controlsShown ==
    /\ mapShown(isLoadingSeats, viewingMode)
    /\ pendingEffects = {}
    /\ ToBoolean(editMode)

\* setTransformations(next) and the render that follows
setTransformations(next) ==
    /\ transformations' = next
    /\ rendered' = Render(availableSeats, next)
    /\ UNCHANGED <<availableSeats, selectedSeat, viewingMode, isLoadingSeats,
                   fileSeatsLoaded, editMode, pendingEffects,
                   selectedSeatIndex, isTransitioning, cameraTarget, timers,
                   late>>
    /\ UNCHANGED <<glbVars, appVars, seatVars, remapVars, normVars, flowVars>>

handleScaleChange(value) ==
    /\ controlsShown
    /\ setTransformations([transformations EXCEPT !.scale = sliderFloat(value)])
    /\ UNCHANGED localStorage

handleRotationChange(value) ==
    /\ controlsShown
    /\ setTransformations([transformations EXCEPT !.rotation = parseInt(value)])
    /\ UNCHANGED localStorage

handleTranslateXChange(value) ==
    /\ controlsShown
    /\ setTransformations(
           [transformations EXCEPT !.translateX = sliderFloat(value)])
    /\ UNCHANGED localStorage

handleTranslateYChange(value) ==
    /\ controlsShown
    /\ setTransformations(
           [transformations EXCEPT !.translateY = sliderFloat(value)])
    /\ UNCHANGED localStorage

resetTransformations ==
    /\ controlsShown
    /\ setTransformations(
           [transformations EXCEPT !.scale = Number(1), !.rotation = Number(0),
                                   !.translateX = Number(0),
                                   !.translateY = Number(0)])
    /\ UNCHANGED localStorage

saveTransformations ==
    /\ controlsShown
    /\ localStorage' =
           setItem(setItem(setItem(setItem(setItem(localStorage,
               STORAGE_KEYS.EDIT_MODE, JSONstringify(Boolean(FALSE))),
               STORAGE_KEYS.SCALE, JSONstringify(transformations.scale)),
               STORAGE_KEYS.ROTATION, JSONstringify(transformations.rotation)),
               STORAGE_KEYS.TRANSLATE_X,
               JSONstringify(transformations.translateX)),
               STORAGE_KEYS.TRANSLATE_Y,
               JSONstringify(transformations.translateY))
    /\ editMode' = Boolean(FALSE)
    /\ rendered' = Render(availableSeats, transformations)
    /\ UNCHANGED <<availableSeats, selectedSeat, viewingMode, isLoadingSeats,
                   fileSeatsLoaded, transformations, pendingEffects,
                   selectedSeatIndex, isTransitioning, cameraTarget, timers,
                   late>>
    /\ UNCHANGED <<glbVars, appVars, seatVars, remapVars, normVars, flowVars>>

NextMap ==
    \/ ResetToFileSeats
    \/ \E loaded \in SeatSets \cup {<<>>} : LoadSeatsSettled(loaded)
    \/ \E imported \in SeatSets : HandleSeatsImported(imported)
    \/ ResetToDefaultSeats
    \/ \E index \in SelectedIndexes : SeatSelected(index)
    \/ HandleViewToggle
    \/ StadiumMapEffects
    \/ \E value \in ScaleInputs : handleScaleChange(value)
    \/ \E value \in RotationInputs : handleRotationChange(value)
    \/ \E value \in TranslateXInputs : handleTranslateXChange(value)
    \/ \E value \in TranslateYInputs : handleTranslateYChange(value)
    \/ resetTransformations
    \/ saveTransformations

SpecMap == InitMap /\ [][NextMap]_vars

-----------------------------------------------------------------------------
(* calcScalingFactors on its own: one list of coordinates, its factors, and *)
(* the base positions the Seats get from them                               *)

MaxSeats == 3

NormXs == {-3, 0, 30}

NormZs == {0, 2, 50}

NormPoints == {[x |-> Number(a), z |-> Number(c)] : a \in NormXs, c \in NormZs}

NormInputs == UNION {[1..n -> NormPoints] : n \in 0..MaxSeats}

InitNorm ==
    /\ AppAtMount
    /\ NoImport
    /\ NoRemap
    /\ NoMap
    /\ NoFlow
    /\ \E input \in NormInputs :
          norm = [input |-> input, factors |-> <<>>, base |-> <<>>]

\* const factors = calcScalingFactors(coordinates)
CalcScalingFactors ==
    /\ norm.factors = <<>>
    /\ norm' = [norm EXCEPT !.factors = <<calcScalingFactors(norm.input)>>]
    /\ UNCHANGED <<glbVars, appVars, seatVars, remapVars, mapVars, flowVars>>

\* baseScale: factors.scale, baseOffset: {x: factors.xOffset, z:
\* factors.zOffset}, and the basePosition of each Seat under them
BasePositions ==
    /\ norm.factors # <<>>
    /\ norm.base = <<>>
    /\ Len(norm.input) > 0
    /\ LET factors == norm.factors[1]
           t == [baseScale |-> factors.scale,
                 baseOffset |-> [x |-> factors.xOffset, z |-> factors.zOffset]]
       IN  norm' = [norm EXCEPT
                      !.base = [i \in 1..Len(norm.input) |->
                                   basePosition(<<norm.input[i].x, Number(0),
                                                  norm.input[i].z>>, t)]]
    /\ UNCHANGED <<glbVars, appVars, seatVars, remapVars, mapVars, flowVars>>

NextNorm ==
    \/ CalcScalingFactors
    \/ BasePositions

SpecNorm == InitNorm /\ [][NextNorm]_vars

-----------------------------------------------------------------------------
(* The seat map: a click on a seat and the timers it starts                 *)

MaxPending == 2

\* the seats of the map that get clicked: the first two of the list
ClickedIndexes == {1, 2}

\* handleSeatSelect: the target of the camera, from the same composition as
\* Seat's, with the transformations of the render the handler belongs to
focusPositionUnmirrored(seat, t) ==
    LET base == <<mul(add(seat.coordinates.x, t.baseOffset.x), t.baseScale),
                  Number(1),
                  mul(add(seat.coordinates.z, t.baseOffset.z), t.baseScale)>>
        rotatedX == sub(mul(base[1], cos(t.rotation)),
                        mul(base[3], sin(t.rotation)))
        rotatedZ == add(mul(base[1], sin(t.rotation)),
                        mul(base[3], cos(t.rotation)))
    IN  <<add(mul(rotatedX, t.scale), t.translateX), Number(0),
          add(mul(rotatedZ, t.scale), t.translateY)>>

focusPosition(seat, t) ==
    LET base == <<mul(add(seat.coordinates.x, t.baseOffset.x), t.baseScale),
                  Number(1),
                  mul(add(seat.coordinates.z, t.baseOffset.z), t.baseScale)>>
        flippedX == base[1]
        flippedZ == neg(base[3])
        rotatedX == sub(mul(flippedX, cos(t.rotation)),
                        mul(flippedZ, sin(t.rotation)))
        rotatedZ == add(mul(flippedX, sin(t.rotation)),
                        mul(flippedZ, cos(t.rotation)))
        position == <<add(mul(rotatedX, t.scale), t.translateX),
                      base[2],
                      add(mul(rotatedZ, t.scale), t.translateY)>>
    IN  <<position[1], Number(0), position[3]>>

\* two seats that were generated with the same id
TwinSeats == <<MapSeat("A11-5", -2, 1, 5), MapSeat("A11-5", 2, 1, 5)>>

\* the seat sets the file and the imports yield while seats get clicked
ClickedSeatSets == {RowOfSeats, TwinSeats}

\* what storage holds when the map is first mounted and seats get clicked
SelectSessions == {NoEntries, SavedSession}

selectVars == <<selectedSeatIndex, isTransitioning, cameraTarget>>

InitSelect ==
    /\ AppAtMount
    /\ NoImport
    /\ NoRemap
    /\ NoNorm
    /\ NoFlow
    /\ \E storage \in SelectSessions : MapAtStart(storage)

\* Seat.handlePointerDown: the Seat's pending click timer is cleared and a
\* new one set; its callback calls the onClick of the render the pointer
\* went down in, so it closes over that render's seats, transformations and
\* isTransitioning
handlePointerDown(index) ==
    /\ mapShown(isLoadingSeats, viewingMode)
    /\ pendingEffects = {}
    /\ index \in 1..Len(availableSeats)
    /\ LET others == withoutClicks(timers, {index})
       IN  /\ Cardinality(others) < MaxPending
           /\ timers' = others \cup
                  {Timer("click", index, availableSeats[index],
                         focusPosition(availableSeats[index], transformations),
                         isTransitioning, TRUE, {})}
    /\ UNCHANGED <<availableSeats, selectedSeat, viewingMode, isLoadingSeats,
                   fileSeatsLoaded, localStorage, editMode, transformations,
                   pendingEffects, rendered, selectVars, late>>
    /\ UNCHANGED <<glbVars, appVars, seatVars, remapVars, normVars, flowVars>>

\* the click timer fires: onClick(uniqueKey), which is handleSeatSelect(index)
\* up to its setTimeout
ClickTimeout(tm) ==
    /\ tm \in timers
    /\ tm.kind = "click"
    /\ IF tm.transitioning
       THEN /\ timers' = withoutClicks(timers, {tm.index})
            /\ UNCHANGED selectVars
       ELSE /\ timers' =
                  {p \in withoutClicks(timers, {tm.index}) :
                      ~(p.live /\ p.kind \in {"select", "transition"})}
                  \cup {Timer("select", tm.index, tm.seat, tm.target, FALSE,
                              TRUE, clicksPending(timers) \ {tm.index})}
            /\ isTransitioning' = TRUE
            /\ cameraTarget' = <<>>
            /\ selectedSeatIndex' = <<>>
    /\ UNCHANGED <<availableSeats, selectedSeat, viewingMode, isLoadingSeats,
                   fileSeatsLoaded, localStorage, editMode, transformations,
                   pendingEffects, rendered, late>>
    /\ UNCHANGED <<glbVars, appVars, seatVars, remapVars, normVars, flowVars>>

\* the 200 ms timer fires: setCameraTarget and the 100 ms timer, whose id is
\* kept nowhere
SelectTimeout(tm) ==
    /\ tm \in timers
    /\ tm.kind = "select"
    /\ tm.after = {}
    /\ cameraTarget' = <<tm.target>>
    /\ timers' = (timers \ {tm})
                     \cup {Timer("inner", tm.index, tm.seat, tm.target, FALSE,
                                 TRUE, clicksPending(timers))}
    /\ UNCHANGED <<availableSeats, selectedSeat, viewingMode, isLoadingSeats,
                   fileSeatsLoaded, localStorage, editMode, transformations,
                   pendingEffects, rendered, selectedSeatIndex,
                   isTransitioning, late>>
    /\ UNCHANGED <<glbVars, appVars, seatVars, remapVars, normVars, flowVars>>

\* the 100 ms timer fires: setSelectedSeatIndex(index), onSeatSelect(seat),
\* which is App.handleSeatSelect and gives the StadiumMap a new key, then the
\* 500 ms timer, kept in transitionTimeoutRef.  Whether the cleanup of the
\* unmount runs after the callback (and clears that timer) or within
\* onSeatSelect (before the timer is set) depends on whether the React of
\* the build batches updates made in a timer: batched covers both.
InnerTimeout(tm, batched) ==
    /\ tm \in timers
    /\ tm.kind = "inner"
    /\ tm.after = {}
    /\ AppHandleSeatSelect(tm.seat)
    /\ IF tm.live
       THEN /\ timers' = committedTimers(timers \ {tm}, TRUE)
                  \cup (IF batched THEN {}
                        ELSE {Timer("transition", tm.index, tm.seat, tm.target,
                                    FALSE, FALSE, {})})
            /\ UNCHANGED late
       ELSE /\ timers' = committedTimers(timers \ {tm}, TRUE)
                  \cup {Timer("transition", tm.index, tm.seat, tm.target,
                              FALSE, FALSE, {})}
            /\ late' = late \cup {"setSelectedSeatIndex", "onSeatSelect"}
    /\ UNCHANGED <<glbVars, appVars, seatVars, remapVars, normVars, flowVars>>

\* the 500 ms timer fires: setIsTransitioning(false)
TransitionTimeout(tm) ==
    /\ tm \in timers
    /\ tm.kind = "transition"
    /\ tm.after = {}
    /\ timers' = timers \ {tm}
    /\ IF tm.live
       THEN /\ isTransitioning' = FALSE
            /\ UNCHANGED late
       ELSE /\ late' = late \cup {"setIsTransitioning"}
            /\ UNCHANGED isTransitioning
    /\ UNCHANGED <<availableSeats, selectedSeat, viewingMode, isLoadingSeats,
                   fileSeatsLoaded, localStorage, editMode, transformations,
                   pendingEffects, rendered, selectedSeatIndex, cameraTarget>>
    /\ UNCHANGED <<glbVars, appVars, seatVars, remapVars, normVars, flowVars>>

NextSelect ==
    \/ \E loaded \in ClickedSeatSets \cup {<<>>} : LoadSeatsSettled(loaded)
    \/ \E imported \in ClickedSeatSets : HandleSeatsImported(imported)
    \/ HandleViewToggle
    \/ StadiumMapEffects
    \/ \E index \in ClickedIndexes : handlePointerDown(index)
    \/ \E tm \in timers : ClickTimeout(tm)
    \/ \E tm \in timers : SelectTimeout(tm)
    \/ \E tm \in timers, batched \in BOOLEAN : InnerTimeout(tm, batched)
    \/ \E tm \in timers : TransitionTimeout(tm)

SpecSelect == InitSelect /\ [][NextSelect]_vars

-----------------------------------------------------------------------------
(* App: the seat set, the selection and the purchase                        *)

\* the calls of loadSeatsFromFile that may be awaited at once
MaxFetches == 2

\* the state of StadiumMap, which these handlers of App leave alone
stadiumVars == <<localStorage, editMode, transformations, pendingEffects,
                 rendered, selectedSeatIndex, isTransitioning, cameraTarget,
                 timers, late>>

\* a call of loadSeatsFromFile that is awaited: kind tells loadSeats (the
\* effect of the mount) from resetToFileSeats; stale records that the seat
\* set was replaced on a request made after this one
Fetch(kind, stale) == [kind |-> kind, stale |-> stale]

\* `seats && seats.length > 0`
hasSeatsAlways(seatList) == TRUE

hasSeats(seatList) == Len(seatList) > 0

\* the awaited calls but the one at position i
withoutFetch(awaited, i) ==
    [k \in 1..(Len(awaited) - 1) |-> IF k < i THEN awaited[k] ELSE awaited[k + 1]]

\* every awaited call is older than the replacement that just happened
allStale(awaited) == [k \in 1..Len(awaited) |-> Fetch(awaited[k].kind, TRUE)]

\* the calls requested before position i are older than the result applied
staleBefore(awaited, i) ==
    [k \in 1..Len(awaited) |->
        IF k < i THEN Fetch(awaited[k].kind, TRUE) ELSE awaited[k]]

\* what the file can yield: a seat set, or no seat (loadSeatsFromFile
\* returns [] when the fetch or the parse failed)
FileResults == SeatSets \cup {<<>>}

\* what handleImport can generate from the pasted text
ImportResults == SeatSets \cup {<<>>}

\* the seats of a seat list
seatsOf(seatList) == {seatList[i] : i \in 1..Len(seatList)}

\* App is mounted and its effect has called loadSeats, which set
\* isLoadingSeats and awaits loadSeatsFromFile
InitApp ==
    /\ AppAtMount
    /\ NoImport
    /\ NoRemap
    /\ NoNorm
    /\ MapAtStart(NoEntries)
    /\ purchaseComplete = FALSE
    /\ fetches = <<Fetch("mount", FALSE)>>

\* resetToFileSeats up to its await
resetToFileSeats ==
    /\ fileSeatsLoaded
    /\ Len(fetches) < MaxFetches
    /\ isLoadingSeats' = TRUE
    /\ fetches' = Append(fetches, Fetch("reset", FALSE))
    /\ UNCHANGED <<availableSeats, selectedSeat, viewingMode, fileSeatsLoaded,
                   purchaseComplete>>
    /\ UNCHANGED <<glbVars, appVars, seatVars, remapVars, normVars,
                   stadiumVars>>

\* loadSeats and resetToFileSeats from their await on: the call at position
\* i of the awaited ones gave loaded
loadSeatsFromFileSettled(i, loaded) ==
    /\ i \in 1..Len(fetches)
    /\ IF hasSeats(loaded)
       THEN /\ availableSeats' = loaded
            /\ IF fetches[i].kind = "mount"
               THEN fileSeatsLoaded' = TRUE /\ UNCHANGED selectedSeat
               ELSE selectedSeat' = <<>> /\ UNCHANGED fileSeatsLoaded
            /\ fetches' = withoutFetch(staleBefore(fetches, i), i)
       ELSE /\ UNCHANGED <<availableSeats, selectedSeat, fileSeatsLoaded>>
            /\ fetches' = withoutFetch(fetches, i)
    /\ isLoadingSeats' = FALSE
    /\ UNCHANGED <<viewingMode, purchaseComplete>>
    /\ UNCHANGED <<glbVars, appVars, seatVars, remapVars, normVars,
                   stadiumVars>>

\* handleImport's `if (seats && seats.length > 0) onSeatsGenerated(seats)`
\* and handleSeatsImported(seats)
handleSeatsImported(generated) ==
    /\ IF hasSeats(generated) /\ hasSeats(generated)
       THEN /\ availableSeats' = generated
            /\ selectedSeat' = <<>>
            /\ fetches' = allStale(fetches)
       ELSE UNCHANGED <<availableSeats, selectedSeat, fetches>>
    /\ UNCHANGED <<viewingMode, isLoadingSeats, fileSeatsLoaded,
                   purchaseComplete>>
    /\ UNCHANGED <<glbVars, appVars, seatVars, remapVars, normVars,
                   stadiumVars>>

\* resetToDefaultSeats: () => setAvailableSeats(DEFAULT_SEATS)
resetToDefaultSeats ==
    /\ availableSeats' = DEFAULT_SEATS
    /\ fetches' = allStale(fetches)
    /\ UNCHANGED <<selectedSeat, viewingMode, isLoadingSeats, fileSeatsLoaded,
                   purchaseComplete>>
    /\ UNCHANGED <<glbVars, appVars, seatVars, remapVars, normVars,
                   stadiumVars>>

\* the StadiumMap is rendered, so that a seat of it can be selected
stadiumMapRendered ==
    /\ ~purchaseComplete
    /\ mapShown(isLoadingSeats, viewingMode)

\* handleSeatSelect(seat), called by the StadiumMap with a seat of its list
handleSeatSelect(seat) ==
    /\ stadiumMapRendered
    /\ seat \in seatsOf(availableSeats)
    /\ selectedSeat' = <<seat>>
    /\ UNCHANGED <<availableSeats, viewingMode, isLoadingSeats,
                   fileSeatsLoaded, purchaseComplete, fetches>>
    /\ UNCHANGED <<glbVars, appVars, seatVars, remapVars, normVars,
                   stadiumVars>>

\* handleViewToggle, from the expand button of TicketForm (a seat is
\* selected and the map is shown) or from the expanded view
handleViewToggle ==
    /\ ~purchaseComplete
    /\ \/ ~viewingMode /\ selectedSeat # <<>>
       \/ viewingMode /\ ~isLoadingSeats
    /\ viewingMode' = ~viewingMode
    /\ UNCHANGED <<availableSeats, selectedSeat, isLoadingSeats,
                   fileSeatsLoaded, purchaseComplete, fetches>>
    /\ UNCHANGED <<glbVars, appVars, seatVars, remapVars, normVars,
                   stadiumVars>>

\* handlePurchase, called by the form of TicketForm, which is rendered for
\* a selected seat
handlePurchase ==
    /\ ~purchaseComplete
    /\ selectedSeat # <<>>
    /\ purchaseComplete' = (IF selectedSeat # <<>> THEN TRUE
                            ELSE purchaseComplete)
    /\ UNCHANGED <<availableSeats, selectedSeat, viewingMode, isLoadingSeats,
                   fileSeatsLoaded, fetches>>
    /\ UNCHANGED <<glbVars, appVars, seatVars, remapVars, normVars,
                   stadiumVars>>

\* handleReset, the button of the purchase confirmation
handleReset ==
    /\ purchaseComplete
    /\ selectedSeat' = <<>>
    /\ viewingMode' = FALSE
    /\ purchaseComplete' = FALSE
    /\ UNCHANGED <<availableSeats, isLoadingSeats, fileSeatsLoaded, fetches>>
    /\ UNCHANGED <<glbVars, appVars, seatVars, remapVars, normVars,
                   stadiumVars>>

NextApp ==
    \/ resetToFileSeats
    \/ \E i \in 1..MaxFetches, loaded \in FileResults :
          loadSeatsFromFileSettled(i, loaded)
    \/ \E generated \in ImportResults : handleSeatsImported(generated)
    \/ resetToDefaultSeats
    \/ \E seat \in UNION {seatsOf(s) : s \in SeatSets} : handleSeatSelect(seat)
    \/ handleViewToggle
    \/ handlePurchase
    \/ handleReset

SpecApp == InitApp /\ [][NextApp]_vars

-----------------------------------------------------------------------------
(* Properties of the loader                                                 *)

ErrorReasons ==
    {"Failed to fetch", "Failed to fetch model", "Failed to fetch DAE model",
     "Error loading model", "No model was loaded",
     "Model validation failed - invalid structure"}

Completes(l) == loads[l].pc # "done" /\ loads'[l].pc = "done"

\* C1: a load that a later locator change has superseded completes (with a
\* model, a validation failure or an error) without changing model, isLoading
\* or error; the model only ever changes to the result of the most recently
\* requested load, at that load's completion.
C1_StaleCompletionDiscarded ==
    [][ /\ \A l \in LoadIds :
             (Completes(l) /\ l < nLoads) =>
                 UNCHANGED <<model, isLoading, error>>
        /\ model' # model =>
             (nLoads' = nLoads /\ Completes(nLoads) /\ model'.id = nLoads)
      ]_vars

\* a superseded load decoded a valid model and it was not applied
C1_Witness ==
    \E l \in LoadIds :
        /\ l < nLoads
        /\ loads[l].pc = "done"
        /\ loads[l].outcome = "ready"
        /\ ~loads[l].applied

\* C2: every scene that was exposed as the ready model is released exactly
\* once: never twice, never while it is still the exposed model, and it has
\* been released once it is no longer the exposed model or the provider is
\* torn down.
C2_ReleasedExactlyOnce ==
    /\ \A s \in LoadIds : released[s] <= 1
    /\ model.id # 0 /\ mounted => released[model.id] = 0
    /\ \A s \in exposed : (s # model.id \/ ~mounted) => released[s] = 1

\* the three parts of C2, each violated on its own
C2_NeverTwice == \A s \in LoadIds : released[s] <= 1
C2_NotWhileExposed == model.id # 0 /\ mounted => released[model.id] = 0
C2_ReleasedAtTeardown == \A s \in exposed : ~mounted => released[s] >= 1

\* C3: the provider exposes exactly one of loading, ready and error, and the
\* loading and error variants carry no scene: a model is never exposed while
\* loading or together with an error.
C3_TaggedUnion ==
    /\ isLoading \/ error # Null \/ model.id # 0
    /\ isLoading => model.id = 0
    /\ error # Null => model.id = 0

\* the part of C3 that the provider keeps: not loading and no error means a
\* model is exposed
C3_ReadyHasModel == (~isLoading /\ error = Null) => model.id # 0

\* C4: every change of the locator puts the provider into the loading state
\* with the error cleared and starts a load of the new locator that has not
\* produced anything yet.
C4_LocatorChangeStartsLoading ==
    [][ customModelUrl' # customModelUrl =>
          /\ isLoading'
          /\ error' = Null
          /\ nLoads' = nLoads + 1
          /\ loads'[nLoads'].modelPath =
               (IF customModelUrl' = <<>> THEN STADIUM_MODEL_PATH
                ELSE customModelUrl')
          /\ loads'[nLoads'].pc = "fetch"
          /\ loads'[nLoads'].outcome = "none"
          /\ ~loads'[nLoads'].applied
      ]_vars

\* the previous load had ended in an error that was shown, and the locator
\* change has cleared it
C4_Witness ==
    /\ nLoads >= 2
    /\ loads[nLoads - 1].applied
    /\ loads[nLoads - 1].outcome \in ErrorReasons
    /\ loads[nLoads].pc = "fetch"
    /\ isLoading
    /\ error = Null

\* C5: when the load of the current locator has completed, the provider is
\* not loading and is ready with that load's model or in error with that
\* load's reason, whichever way the load ended.
C5_CurrentLoadSettles ==
    \A l \in LoadIds :
        (loads[l].pc = "done" /\ loads[l].isMounted) =>
            /\ ~isLoading
            /\ \/ loads[l].outcome = "ready" /\ model.id = l /\ error = Null
               \/ loads[l].outcome \in ErrorReasons /\ error = loads[l].outcome

\* the current load failed geometry validation and the provider shows it
C5_Witness ==
    \E l \in LoadIds :
        /\ loads[l].pc = "done"
        /\ loads[l].isMounted
        /\ loads[l].outcome = "Model validation failed - invalid structure"
        /\ error = "Model validation failed - invalid structure"
        /\ ~isLoading

-----------------------------------------------------------------------------
(* Properties of validateGlbFile                                            *)

GlbNamed(file) ==
    file.name \in { <<"m", ".", "g", "l", "b">>, <<"m", ".", "G", "L", "B">> }

\* the k-th 32-bit word of the buffer, empty when the buffer is too short
Word(bytes, k) ==
    IF Len(bytes) >= 4 * k THEN SubSeq(bytes, 4 * k - 3, 4 * k) ELSE <<>>

MagicOk(bytes) == Word(bytes, 1) = <<103, 108, 84, 70>>
VersionOk(bytes) == Word(bytes, 2) = <<2, 0, 0, 0>>
LengthOk(bytes) ==
    /\ Len(bytes) >= 12
    /\ bytes[9] + 256 * bytes[10] + 65536 * bytes[11] + 16777216 * bytes[12]
         <= Len(bytes)
ChunkOk(bytes) == Word(bytes, 5) = <<74, 83, 79, 78>>

\* C6 (as amended): a .glb file is reported valid exactly when its first four
\* bytes are 67 6C 54 46, the little-endian version at offset 4 is 2, the
\* little-endian length at offset 8 does not exceed the byte length, and the
\* little-endian chunk type at offset 16 is 0x4E4F534A (so the buffer holds
\* at least 20 bytes).
C6_ValidIffFourChecks ==
    (vResult # NoResult /\ GlbNamed(vFile)) =>
        (vResult.valid <=>
            /\ MagicOk(vFile.bytes)
            /\ VersionOk(vFile.bytes)
            /\ LengthOk(vFile.bytes)
            /\ ChunkOk(vFile.bytes))

\* C6 (as claimed): a .glb file is reported valid exactly when magic, version
\* and length are right.
C6_ValidIffThreeChecks ==
    (vResult # NoResult /\ GlbNamed(vFile)) =>
        (vResult.valid <=>
            /\ MagicOk(vFile.bytes)
            /\ VersionOk(vFile.bytes)
            /\ LengthOk(vFile.bytes))

\* a .glb file was validated and reported valid
C6_Witness ==
    /\ vResult # NoResult
    /\ GlbNamed(vFile)
    /\ vResult.valid
    /\ Len(vFile.bytes) = 24

-----------------------------------------------------------------------------
(* Properties of the uploader and of the dispatch to a decoder              *)

Started(u) == uploads[u].pc # "idle"

\* C7: a file that fails validation is never handed on: onModelUploaded is
\* not called for it, its blob locator never becomes the custom model
\* locator and no load is started for it; onModelUploaded is called at most
\* once per file, when its upload is done.
C7_RejectedNeverHandedOver ==
    \A u \in UploadIds :
        /\ uploads[u].notified <= 1
        /\ uploads[u].notified = 1 => uploads[u].pc = "done"
        /\ (Started(u) /\ ~validateGlbFile(uploads[u].file).valid) =>
              /\ uploads[u].notified = 0
              /\ uploads[u].pc \in {"validating", "rejected"}
              /\ customModelUrl # createObjectURL(u)
              /\ \A l \in LoadIds : loads[l].modelPath # createObjectURL(u)

\* one file was rejected and another was handed to the application
C7_Witness ==
    \E u, w \in UploadIds :
        /\ uploads[u].pc = "rejected"
        /\ uploads[w].notified = 1
        /\ customModelUrl = createObjectURL(w)

\* the extension the asset of a load was declared with: the uploaded file's
\* name for a blob locator, the locator's own text otherwise
DeclaredExtension(l) ==
    IF \E u \in UploadIds :
          Started(u) /\ uploads[u].blobUrl = loads[l].modelPath
    THEN LET u == CHOOSE w \in UploadIds :
                    Started(w) /\ uploads[w].blobUrl = loads[l].modelPath
         IN  toLowerCase(SplitPop(uploads[u].file.name))
    ELSE toLowerCase(SplitPop(loads[l].modelPath))

\* C8: every load that reached a decoder reached the Collada decoder if its
\* asset was declared .dae (an uploaded *.dae included) and the glTF decoder
\* otherwise.
C8_DecoderByDeclaredFormat ==
    \A l \in LoadIds :
        loads[l].decoder # "none" =>
            (loads[l].decoder = "ColladaLoader"
                <=> DeclaredExtension(l) = <<"d", "a", "e">>)

KnownExtensions ==
    { <<".", "g", "l", "b">>, <<".", "g", "l", "t", "f">>,
      <<".", "f", "b", "x">>, <<".", "o", "b", "j">>,
      <<".", "s", "t", "l">>, <<".", "d", "a", "e">> }

\* the file's lower-cased extension is no part of any supported format name
UnknownExtension(file) ==
    \A known \in KnownExtensions :
        ~Includes(known, toLowerCase(SplitPop(file.name)))

\* C9 (as claimed): a file with an unknown extension is not rejected before
\* the loader sees it.
C9_UnknownFileNotRejected ==
    \A u \in UploadIds :
        (Started(u) /\ UnknownExtension(uploads[u].file)) =>
            uploads[u].pc # "rejected"

\* C9 (as amended): the loader rejects no locator up front: a locator that
\* does not end in .dae, whatever its extension, is fetched and given to the
\* glTF decoder, and its load has no outcome before the fetch has answered;
\* an uploaded file whose extension is no part of a supported format name
\* is rejected by validateGlbFile and never reaches the loader.
C9_LocatorNotRejectedFileRejected ==
    /\ \A l \in 1..nLoads :
          ~EndsWith(loads[l].modelPath, <<".", "d", "a", "e">>) =>
              /\ loads[l].decoder \in {"none", "GLTFLoader"}
              /\ loads[l].pc = "fetch" => loads[l].outcome = "none"
              /\ loads[l].pc = "decode" => loads[l].decoder = "GLTFLoader"
    /\ \A u \in UploadIds :
          (Started(u) /\ UnknownExtension(uploads[u].file)) =>
              /\ uploads[u].pc \in {"validating", "rejected"}
              /\ uploads[u].notified = 0
              /\ \A l \in LoadIds : loads[l].modelPath # createObjectURL(u)

\* a blob locator, which has no extension, failed in the glTF decoder, and a
\* file with an unknown extension was rejected by the uploader
C9_Witness ==
    /\ \E l \in 1..nLoads :
          /\ loads[l].modelPath \in { createObjectURL(u) : u \in UploadIds }
          /\ loads[l].decoder = "GLTFLoader"
          /\ loads[l].outcome = "Error loading model"
    /\ \E u \in UploadIds :
          /\ UnknownExtension(uploads[u].file)
          /\ uploads[u].pc = "rejected"

\* at least one top-level child that is a Mesh with geometry or a Group or
\* Object3D with a child
Meaningful(scene) ==
    \E i \in 1..Len(scene.children) :
        LET child == scene.children[i]
        IN  \/ child.type = "Mesh" /\ child.geometry
            \/ child.type = "Group" /\ child.nChildren >= 1
            \/ child.type = "Object3D" /\ child.nChildren >= 1

\* C10: the exposed model always has a scene with a meaningful top-level
\* child; a load that ended ready decoded such a scene, and a load whose
\* validation failed did not store its model.  The same holds of what the
\* Collada branch hands to the validation (a statement about the functions
\* alone, evaluated once, in the state before the first fetch answers).
C10_ExposedModelIsMeaningful ==
    /\ model.id # 0 =>
          /\ model.result.scene.present
          /\ Meaningful(model.result.scene)
    /\ \A l \in LoadIds :
          loads[l].outcome = "Model validation failed - invalid structure" =>
              (l \notin exposed /\ model.id # l)
    /\ \A l \in LoadIds :
          (loads[l].outcome = "ready" /\ loads[l].applied) => l \in exposed
    /\ (nLoads = 1 /\ loads[1].pc = "fetch" /\ nUploads = 0 /\ mounted) =>
          \A r \in ColladaResults :
              LET loadedModel == adaptDae(r)
              IN  (~loadedModel.isNull /\ isValidModel(loadedModel)) =>
                    (loadedModel.scene.present /\ Meaningful(loadedModel.scene))

\* the exposed scene's only top-level child is a group that holds no
\* renderable primitive anywhere below it: the check stops one level down
C10_Witness ==
    /\ model.id # 0
    /\ ~isLoading
    /\ model.result.scene.children = <<HollowGroup>>

-----------------------------------------------------------------------------
(* Properties of the error reasons and of the seat view                     *)

\* C11: the reason recorded for a decode that is structurally valid but has
\* no renderable geometry differs from the reason of every load that failed
\* in the fetch and of every load that failed in the decoder, and it is the
\* reason the provider shows when that load is the current one.
C11_EmptyGeometryReasonDistinct ==
    \A l \in LoadIds :
        loads[l].cause = "empty" =>
            /\ \A k \in LoadIds :
                  loads[k].cause \in {"fetch", "decode", "null"} =>
                      loads[k].outcome # loads[l].outcome
            /\ (loads[l].isMounted /\ loads[l].applied) =>
                  error = loads[l].outcome

\* three loads ended in the three ways: fetch, decoder, empty geometry
C11_Witness ==
    \E l, k, j \in LoadIds :
        /\ loads[l].cause = "empty"
        /\ loads[k].cause = "fetch"
        /\ loads[j].cause = "decode"

\* a top-level child the seat view counts as geometry: a Mesh, a Group, or a
\* node with children
GeometryBearing(m) ==
    /\ m.result.scene.present
    /\ \E i \in 1..Len(m.result.scene.children) :
          LET child == m.result.scene.children[i]
          IN  child.type \in {"Mesh", "Group"} \/ child.nChildren > 0

\* C12: when the provider is not loading and has no model, or has an error,
\* or its model's scene has no geometry-bearing child, the seat view renders
\* the fallback scene; when it is not loading the view shows the fallback
\* scene or the model, never nothing.
C12_FallbackNeverBlank ==
    /\ (~isLoading /\ (model.id = 0 \/ error # Null \/ ~GeometryBearing(model)))
          => MiniSeatView = "FallbackModel"
    /\ error # Null => MiniSeatView = "FallbackModel"
    /\ ~isLoading => MiniSeatView \in {"FallbackModel", "primitive"}
    /\ MiniSeatView = "primitive" =>
          (model.id # 0 /\ error = Null /\ GeometryBearing(model))

\* a model of an earlier load is still held while the current load has
\* failed, and the view shows the fallback scene
C12_Witness ==
    /\ ~isLoading
    /\ model.id # 0
    /\ error # Null
    /\ MiniSeatView = "FallbackModel"

-----------------------------------------------------------------------------
(* Properties of the remaps                                                 *)

\* C15: the bulk-import remap maps (x, y, z) to (x, z, y), and applied
\* twice it gives back the original triple.
C15_BulkRemapSwapsTwiceIdentity ==
    /\ remap.bulk # <<>> =>
          remap.bulk = <<[x |-> remap.input[1].x, y |-> remap.input[1].z,
                          z |-> remap.input[1].y]>>
    /\ remap.twice # <<>> => remap.twice = remap.input

\* a triple whose y and z differ was remapped twice
C15_Witness ==
    /\ remap.twice # <<>>
    /\ remap.input[1].y # remap.input[1].z
    /\ remap.bulk # remap.input

\* C16: the per-seat remap maps (x, y, z) to (x, z, -y), and its result
\* differs from the bulk-import remap's on every triple whose y is not zero.
C16_PerSeatRemapNegatesDepth ==
    /\ remap.perSeat # <<>> =>
          /\ remap.perSeat[1].x = remap.input[1].x
          /\ remap.perSeat[1].y = remap.input[1].z
          /\ ~remap.perSeat[1].z.nan
          /\ remap.perSeat[1].z.v = 0 - remap.input[1].y.v
    /\ (remap.perSeat # <<>> /\ remap.bulk # <<>> /\ remap.input[1].y.v # 0) =>
          remap.perSeat # remap.bulk

\* both remaps were applied to a triple whose y is not zero
C16_Witness ==
    /\ remap.perSeat # <<>>
    /\ remap.bulk # <<>>
    /\ remap.input[1].y.v # 0
    /\ remap.perSeat[1].z.v = 0 - remap.input[1].y.v

-----------------------------------------------------------------------------
(* Properties of the seat import                                            *)

Parsed == importPc \in {"parsed", "remapped", "generated", "done"}
Imported == importPc = "done"

\* a signed decimal number: an optional '-', digits, an optional fraction
IsNumeral(field) ==
    LET body == IF field # <<>> /\ field[1] = "-" THEN Tail(field) ELSE field
        dots == {i \in 1..Len(body) : body[i] = "."}
    IN  /\ body # <<>>
        /\ \A i \in 1..Len(body) : IsDigit(body[i]) \/ body[i] = "."
        /\ Cardinality(dots) <= 1
        /\ IsDigit(body[1])
        /\ IsDigit(body[Len(body)])

\* the texts between "<Vector (" and ")>" in a line
RecordBodies(line) ==
    { SubSeq(line, open + 1, close - 1) :
        <<open, close>> \in
            { oc \in (1..Len(line)) \X (1..Len(line)) :
                /\ oc[1] < oc[2]
                /\ line[oc[1]] = "("
                /\ line[oc[2]] = ")"
                /\ oc[2] < Len(line) /\ line[oc[2] + 1] = ">"
                /\ \A k \in (oc[1] + 1)..(oc[2] - 1) : line[k] \notin {"(", ")"}
                /\ \E i \in 1..oc[1] :
                      /\ i + 7 <= oc[1]
                      /\ SubSeq(line, i, i + 6) = VectorOpen
                      /\ \A k \in (i + 7)..(oc[1] - 1) : line[k] = " " } }

\* a line that matches <Vector (x, y, z)> with exactly three numeric fields
WellFormed(line) ==
    \E body \in RecordBodies(line) :
        LET fields == split(body, ",")
        IN  /\ Len(fields) = 3
            /\ \A k \in 1..3 : IsNumeral(trim(fields[k]))

\* the point a well-formed line denotes
PointOfLine(line) ==
    LET body == CHOOSE b \in RecordBodies(line) : Len(split(b, ",")) = 3
        fields == split(body, ",")
    IN  [x |-> parseFloat(fields[1]), y |-> parseFloat(fields[2]),
         z |-> parseFloat(fields[3])]

\* one point for every well-formed line, in line order
RECURSIVE PointsOfLines(_)
PointsOfLines(lines) ==
    IF lines = <<>> THEN <<>>
    ELSE (IF WellFormed(Head(lines)) THEN <<PointOfLine(Head(lines))>> ELSE <<>>)
             \o PointsOfLines(Tail(lines))

Finite(point) == ~point.x.nan /\ ~point.y.nan /\ ~point.z.nan

\* C13: parseVectorCoordinates emits exactly one point for every line that
\* matches <Vector (x, y, z)> with exactly three numeric fields, in line
\* order, and skips every other line; a text without such a line yields the
\* empty sequence.
C13_OnePointPerWellFormedLine ==
    importPc = "parsed" =>
        coordinates = PointsOfLines(split(importText, "\n"))

\* the part of C13 that the parser keeps: a text none of whose lines holds
\* the record pattern yields the empty sequence
C13_NoRecordNoPoint ==
    (importPc = "parsed"
        /\ \A k \in 1..Len(split(importText, "\n")) :
              RecordBodies(split(importText, "\n")[k]) = {})
        => coordinates = <<>>

\* C14: every parsed point has finite x, y and z, and so have the
\* coordinates of every seat built from the parsed points.
C14_ParsedPointsFinite ==
    /\ Parsed => \A i \in 1..Len(coordinates) : Finite(coordinates[i])
    /\ \A i \in 1..Len(seats) : Finite(seats[i].coordinates)

\* the descending step function of the squared horizontal distance, in
\* units of 1 / Scale^2
StepPrice(dsq) ==
    IF dsq <= 20 * 20 THEN 250
    ELSE IF dsq <= 40 * 40 THEN 200
    ELSE IF dsq <= 60 * 60 THEN 150
    ELSE IF dsq <= 80 * 80 THEN 120
    ELSE 100

HorizontalSq(seat) ==
    seat.coordinates.x.v * seat.coordinates.x.v
        + seat.coordinates.y.v * seat.coordinates.y.v

OnPlane(seat) == ~seat.coordinates.x.nan /\ ~seat.coordinates.y.nan

\* C17: the price of every imported seat, from the file or from pasted text,
\* is the step function of its horizontal distance from the origin, so a
\* seat farther out is never dearer.
C17_PriceIsStepOfDistance ==
    Imported =>
        /\ \A i \in 1..Len(seats) :
              OnPlane(seats[i]) =>
                  /\ ~seats[i].price.nan
                  /\ seats[i].price.v = StepPrice(HorizontalSq(seats[i]))
        /\ \A i, j \in 1..Len(seats) :
              (OnPlane(seats[i]) /\ OnPlane(seats[j])
                  /\ HorizontalSq(seats[i]) <= HorizontalSq(seats[j]))
                  => seats[i].price.v >= seats[j].price.v

\* the part of C17 that holds: the seats of the file load
C17_FileLoadPriceIsStep ==
    (Imported /\ importSource = "file") =>
        \A i \in 1..Len(seats) :
            OnPlane(seats[i]) =>
                /\ ~seats[i].price.nan
                /\ seats[i].price.v = StepPrice(HorizontalSq(seats[i]))

\* C18: the ids of the seats of one import are pairwise distinct.
C18_SeatIdsDistinct ==
    Imported =>
        \A i, j \in 1..Len(seats) : i # j => seats[i].id # seats[j].id

\* C19: for every imported seat, row = floor(|y| * 10) + 1 and
\* number = floor(|x| * 10) + 1 of its coordinates: integers >= 1, not
\* bounded above.
C19_RowAndNumberFromCoordinates ==
    Imported =>
        \A i \in 1..Len(seats) :
            LET c == seats[i].coordinates
            IN  /\ ~seats[i].row.nan /\ seats[i].row.v >= 1
                /\ ~seats[i].number.nan /\ seats[i].number.v >= 1
                /\ ~c.y.nan => seats[i].row.v = (absv(c.y.v) * 10) \div Scale + 1
                /\ ~c.x.nan => seats[i].number.v = (absv(c.x.v) * 10) \div Scale + 1

\* the letters of the quadrant of (x, y), by the signs of x and y
QuadrantLetters(c) ==
    IF c.x.v < 0
    THEN (IF c.y.v < 0 THEN <<"G", "H", "J">> ELSE <<"A", "B", "C">>)
    ELSE (IF c.y.v < 0 THEN <<"K", "L", "M">> ELSE <<"D", "E", "F">>)

\* the bucket of a squared distance among n equal-width buckets over [0, 1),
\* distances beyond clamped to the last bucket
Bucket(dsq, n) ==
    LET inside == {k \in 0..(n - 1) :
                      n * n * dsq < (k + 1) * (k + 1) * Scale * Scale}
    IN  IF inside = {} THEN n - 1
        ELSE CHOOSE k \in inside : \A j \in inside : k <= j

\* C20: the section of an imported seat is the letter of its quadrant's list
\* at the bucket of its distance, which is always an index of that list.
C20_SectionByQuadrantAndBucket ==
    Imported =>
        \A i \in 1..Len(seats) :
            LET c == seats[i].coordinates
                letters == QuadrantLetters(c)
            IN  /\ seats[i].section \in
                      {"A", "B", "C", "D", "E", "F", "G", "H", "J", "K", "L", "M"}
                /\ OnPlane(seats[i]) =>
                      seats[i].section =
                          letters[Bucket(HorizontalSq(seats[i]), Len(letters)) + 1]

\* the part of C20 that holds: the seats of the file load whose coordinates
\* are numbers
C20_FileLoadSectionOfFinite ==
    (Imported /\ importSource = "file") =>
        \A i \in 1..Len(seats) :
            LET c == seats[i].coordinates
                letters == QuadrantLetters(c)
            IN  OnPlane(seats[i]) =>
                    seats[i].section =
                        letters[Bucket(HorizontalSq(seats[i]), Len(letters)) + 1]

-----------------------------------------------------------------------------
(* Properties of the seat map: normalization                                *)

\* the coordinates of the seats of a list
HorizontalOf(seatList) == [i \in 1..Len(seatList) |-> seatList[i].coordinates]

Least(values) == CHOOSE v \in values : \A w \in values : ~less(w, v)

Greatest(values) == CHOOSE v \in values : \A w \in values : ~less(v, w)

XsOf(points) == {points[i].x : i \in 1..Len(points)}

ZsOf(points) == {points[i].z : i \in 1..Len(points)}

\* the bounding extent of a list of points that is not empty
Width(points) == sub(Greatest(XsOf(points)), Least(XsOf(points)))

Height(points) == sub(Greatest(ZsOf(points)), Least(ZsOf(points)))

\* 20 / extent, with an extent of zero treated as factor 1
FitFactor(extent) ==
    IF extent = Number(0) THEN Number(1) ELSE div(Number(20), extent)

ExpectedBaseScale(points) ==
    IF Len(points) <= 1 THEN Number(1)
    ELSE mul(min2(FitFactor(Width(points)), FitFactor(Height(points))),
             Ratio(95, 100))

\* the mounted map has run its base-factor effect for the seats it shows
BaseSettled == rendered # <<>> /\ "seats" \notin pendingEffects

\* C21: once the base factors of the mounted map are computed for its seat
\* set, the stored baseScale is min(20/width, 20/height) x 0.95 with a zero
\* width or height taken as factor 1, and it is 1 for a seat set of size 0
\* or 1.
C21_BaseScaleOfSeatSet ==
    BaseSettled =>
        transformations.baseScale
            = ExpectedBaseScale(HorizontalOf(availableSeats))

\* the same for the seat sets of two seats and more, which is what the code
\* computes
C21_BaseScaleOfSeveralSeats ==
    (BaseSettled /\ Len(availableSeats) >= 2) =>
        transformations.baseScale
            = ExpectedBaseScale(HorizontalOf(availableSeats))

\* C22: the offsets calcScalingFactors returns are the negated centre of the
\* bounding extent on each horizontal axis, so twice the offset plus min plus
\* max is zero; for a single point they are the negation of that point and
\* for an empty list they are 0 and 0.
C22_BaseOffsetIsNegatedCentre ==
    norm.factors # <<>> =>
        LET f == norm.factors[1]
            points == norm.input
        IN  IF Len(points) = 0
            THEN f.xOffset = Number(0) /\ f.zOffset = Number(0)
            ELSE /\ add(mul(Number(2), f.xOffset),
                        add(Least(XsOf(points)), Greatest(XsOf(points))))
                     = Number(0)
                 /\ add(mul(Number(2), f.zOffset),
                        add(Least(ZsOf(points)), Greatest(ZsOf(points))))
                     = Number(0)
                 /\ Len(points) = 1 =>
                        /\ f.xOffset = neg(points[1].x)
                        /\ f.zOffset = neg(points[1].z)

C22_Witness ==
    /\ norm.factors # <<>>
    /\ Len(norm.input) >= 2
    /\ Width(norm.input) # Number(0)
    /\ norm.factors[1].xOffset # Number(0)
    /\ norm.factors[1].zOffset # Number(0)

\* a list with at least two distinct horizontal positions
TwoPositions(points) ==
    \E i, j \in 1..Len(points) : points[i] # points[j]

BaseXs == {norm.base[i][1] : i \in 1..Len(norm.base)}

BaseZs == {norm.base[i][3] : i \in 1..Len(norm.base)}

WithinFootprint(v) == ~less(v, Ratio(-95, 10)) /\ ~less(Ratio(95, 10), v)

LargerBaseExtent ==
    LET w == sub(Greatest(BaseXs), Least(BaseXs))
        h == sub(Greatest(BaseZs), Least(BaseZs))
    IN  IF less(w, h) THEN h ELSE w

\* C23: for a seat set with at least two distinct horizontal positions every
\* base position lies within [-9.5, 9.5] on both horizontal axes and the
\* larger of the two extents of the base positions is exactly 19.
C23_FootprintSpans19 ==
    (norm.base # <<>> /\ TwoPositions(norm.input)) =>
        /\ \A v \in BaseXs \cup BaseZs : WithinFootprint(v)
        /\ LargerBaseExtent = Number(19)

\* what the code does give: the bounds always, the span of 19 when the
\* positions differ on both axes or lie more than 20 apart on one
C23_FootprintWithinBounds ==
    norm.base # <<>> => \A v \in BaseXs \cup BaseZs : WithinFootprint(v)

C23_SpreadFootprintSpans19 ==
    (/\ norm.base # <<>>
     /\ \/ Width(norm.input) # Number(0) /\ Height(norm.input) # Number(0)
        \/ less(Number(20), Width(norm.input))
        \/ less(Number(20), Height(norm.input))) =>
        LargerBaseExtent = Number(19)

-----------------------------------------------------------------------------
(* Properties of the seat map: composition, transformations, storage        *)

\* the five steps of the composition, one at a time
Normalise(c, t) ==
    <<mul(add(c.x, t.baseOffset.x), t.baseScale),
      Number(1),
      mul(add(c.z, t.baseOffset.z), t.baseScale)>>

Mirror(p) == <<p[1], p[2], neg(p[3])>>

Rotate(p, degrees) ==
    <<sub(mul(p[1], cos(degrees)), mul(p[3], sin(degrees))),
      p[2],
      add(mul(p[1], sin(degrees)), mul(p[3], cos(degrees)))>>

UserScale(p, s) == <<mul(p[1], s), p[2], mul(p[3], s)>>

Translate(p, tx, ty) == <<add(p[1], tx), p[2], add(p[3], ty)>>

Composition(c, t) ==
    Translate(UserScale(Rotate(Mirror(Normalise(c, t)), t.rotation), t.scale),
              t.translateX, t.translateY)

\* C24: the position every Seat is rendered at is the composition in the
\* order normalise, negate the depth axis, rotate, user scale, translate, of
\* the seat's coordinates under the transformations the Seat was given, with
\* a height that is the same constant whatever the seat's y.
C24_PositionIsComposition ==
    \A i \in 1..Len(rendered) :
        /\ rendered[i].position
               = Composition(rendered[i].seat.coordinates,
                             rendered[i].transformations)
        /\ rendered[i].position[2] = Number(1)

C24_Witness ==
    /\ Len(rendered) >= 2
    /\ transformations.rotation = Number(270)
    /\ transformations.scale = Number(2)
    /\ transformations.translateX = Number(-10)
    /\ transformations.translateY = Ratio(1, 2)
    /\ transformations.baseScale # Number(1)
    /\ rendered[1].transformations = transformations
    /\ rendered[1].seat.coordinates.y # rendered[Len(rendered)].seat.coordinates.y
    /\ rendered[1].position[3] # Ratio(1, 2)

UserFields ==
    <<transformations.scale, transformations.rotation,
      transformations.translateX, transformations.translateY>>

\* C25: a step that changes scale, rotation, translateX or translateY of the
\* live transformations is one of the four slider handlers or the reset.
C25_UserFieldsChangeOnlyByControls ==
    [][UserFields' # UserFields =>
          \/ \E value \in ScaleInputs : handleScaleChange(value)
          \/ \E value \in RotationInputs : handleRotationChange(value)
          \/ \E value \in TranslateXInputs : handleTranslateXChange(value)
          \/ \E value \in TranslateYInputs : handleTranslateYChange(value)
          \/ resetTransformations]_vars

\* what the code does give: the steps that mount no new StadiumMap leave the
\* four fields alone
C25_UserFieldsKeptWhileMounted ==
    [][(\/ \E imported \in SeatSets : HandleSeatsImported(imported)
        \/ ResetToDefaultSeats
        \/ ResetToFileSeats
        \/ StadiumMapEffects
        \/ saveTransformations) => UserFields' = UserFields]_vars

Durable ==
    <<localStorage[STORAGE_KEYS.SCALE], localStorage[STORAGE_KEYS.ROTATION],
      localStorage[STORAGE_KEYS.TRANSLATE_X],
      localStorage[STORAGE_KEYS.TRANSLATE_Y]>>

\* the entry reads back as the value
ReadsBackAs(entry, value) ==
    /\ entry # <<>>
    /\ JSONparse(entry[1]) = [ok |-> TRUE, value |-> value]

\* C26: a step that changes the stored scale, rotation, translateX or
\* translateY is the save, and after the save each of the four entries reads
\* back as the live field.
C26_StorageWrittenOnlyBySave ==
    [][/\ Durable' # Durable => saveTransformations
       /\ saveTransformations =>
             /\ ReadsBackAs(localStorage'[STORAGE_KEYS.SCALE],
                            transformations'.scale)
             /\ ReadsBackAs(localStorage'[STORAGE_KEYS.ROTATION],
                            transformations'.rotation)
             /\ ReadsBackAs(localStorage'[STORAGE_KEYS.TRANSLATE_X],
                            transformations'.translateX)
             /\ ReadsBackAs(localStorage'[STORAGE_KEYS.TRANSLATE_Y],
                            transformations'.translateY)]_vars

C26_Witness ==
    /\ editMode = Boolean(FALSE)
    /\ rendered # <<>>
    /\ transformations.scale = Number(2)
    /\ transformations.translateY = Ratio(1, 2)
    /\ localStorage[STORAGE_KEYS.SCALE] = <<<<"2">>>>
    /\ localStorage[STORAGE_KEYS.TRANSLATE_Y] = <<TextTranslateY>>
    /\ localStorage[STORAGE_KEYS.ROTATION] = <<<<"0">>>>

\* the texts that are JSON, with the value each one denotes
Meanings ==
    {<<TextFalse, Boolean(FALSE)>>,
     <<TextScale, Ratio(3, 2)>>,
     <<TextRotation, Number(90)>>,
     <<TextTranslateX, Number(-10)>>,
     <<TextTranslateY, Ratio(1, 2)>>,
     <<TextScaleNegative, Number(-1)>>,
     <<TextRotationFull, Number(360)>>,
     <<<<"0">>, Number(0)>>,
     <<<<"1">>, Number(1)>>,
     <<<<"2">>, Number(2)>>,
     <<<<"2", "7", "0">>, Number(270)>>}

\* what loading an entry has to give
ExpectedLoad(entry, defaultValue) ==
    IF entry = <<>> \/ entry[1] = TextCorrupt THEN defaultValue
    ELSE (CHOOSE m \in Meanings : m[1] = entry[1])[2]

\* a StadiumMap has just been mounted: its first commit, no effect run yet
JustMounted == rendered # <<>> /\ "mount" \in pendingEffects

\* C27: when a StadiumMap starts, each of edit mode, scale, rotation,
\* translateX and translateY is what its own entry denotes, or its default
\* (true, 1, 0, 0, 0) when that entry is absent or does not parse, whatever
\* the other four entries hold.
C27_EachValueLoadedOnItsOwn ==
    JustMounted =>
        /\ editMode = ExpectedLoad(localStorage[STORAGE_KEYS.EDIT_MODE],
                                   Boolean(TRUE))
        /\ transformations.scale
               = ExpectedLoad(localStorage[STORAGE_KEYS.SCALE], Number(1))
        /\ transformations.rotation
               = ExpectedLoad(localStorage[STORAGE_KEYS.ROTATION], Number(0))
        /\ transformations.translateX
               = ExpectedLoad(localStorage[STORAGE_KEYS.TRANSLATE_X], Number(0))
        /\ transformations.translateY
               = ExpectedLoad(localStorage[STORAGE_KEYS.TRANSLATE_Y], Number(0))

C27_Witness ==
    /\ JustMounted
    /\ localStorage[STORAGE_KEYS.SCALE] = <<TextCorrupt>>
    /\ transformations.scale = Number(1)
    /\ transformations.rotation = Number(90)
    /\ transformations.translateX = Number(-10)
    /\ transformations.translateY = Ratio(1, 2)
    /\ editMode = Boolean(FALSE)

\* C28: while a StadiumMap is mounted its transformations have scale > 0,
\* 0 <= rotation < 360 and baseScale > 0.
C28_TransformationsInRange ==
    rendered # <<>> =>
        /\ greater(transformations.scale, Number(0))
        /\ ~less(transformations.rotation, Number(0))
        /\ less(transformations.rotation, Number(360))
        /\ greater(transformations.baseScale, Number(0))

\* the stored scale and rotation are ones the sliders can produce
StoredInRange ==
    /\ localStorage[STORAGE_KEYS.SCALE]
           \notin {<<TextScaleNegative>>}
    /\ localStorage[STORAGE_KEYS.ROTATION]
           \notin {<<TextRotationFull>>}

\* what the code does give: the range holds as long as storage holds no
\* scale or rotation from outside it
C28_InRangeUnlessStoredOutside ==
    (rendered # <<>> /\ StoredInRange) =>
        /\ greater(transformations.scale, Number(0))
        /\ ~less(transformations.rotation, Number(0))
        /\ less(transformations.rotation, Number(360))
        /\ greater(transformations.baseScale, Number(0))

\* the base factors of the seats of a commit
FactorsOfRendered ==
    calcScalingFactors([i \in 1..Len(rendered) |->
                           [x |-> rendered[i].seat.coordinates.x,
                            z |-> rendered[i].seat.coordinates.z]])

\* C29: every Seat of a commit is given the baseScale and baseOffset that
\* calcScalingFactors yields for the seats of that same commit.
C29_SeatsRenderedWithOwnBaseFactors ==
    \A i \in 1..Len(rendered) :
        /\ rendered[i].transformations.baseScale = FactorsOfRendered.scale
        /\ rendered[i].transformations.baseOffset
               = [x |-> FactorsOfRendered.xOffset,
                  z |-> FactorsOfRendered.zOffset]

\* what the code does give: once the effect on [seats] has run, the base
\* factors are those of the current seat set
C29_BaseFactorsRecomputed ==
    BaseSettled =>
        /\ C29_SeatsRenderedWithOwnBaseFactors
        /\ \A i \in 1..Len(rendered) : rendered[i].seat = availableSeats[i]
        /\ Len(rendered) = Len(availableSeats)

-----------------------------------------------------------------------------
(* Properties of the seat map: selection timers                             *)

\* C30: no callback of a timer that an unmounted StadiumMap had set runs
\* for it: it makes no onSeatSelect call and no state update after the
\* unmount.
C30_NothingAfterUnmount == late = {}

\* what the code does give: the timers held in refs never outlive their
\* StadiumMap
C30_RefTimersCancelled ==
    \A tm \in timers : tm.kind \in {"click", "select"} => tm.live

-----------------------------------------------------------------------------
(* Properties of App: the seat set, the selection and the purchase          *)

\* an awaited call of loadSeatsFromFile settles in this step: the one at
\* position i
Settles(i) ==
    /\ i \in 1..Len(fetches)
    /\ Len(fetches') = Len(fetches) - 1
    /\ \A k \in 1..Len(fetches') :
          fetches'[k].kind = fetches[IF k < i THEN k ELSE k + 1].kind

\* C31: seat-set replacements take effect in the order of their requests: a
\* reload of the file that settles after a seat set requested later (a pasted
\* import, the default seats, a later reload) was set does not replace it.
C31_LateReloadNotApplied ==
    [][\A i \in 1..Len(fetches) :
          Settles(i) /\ fetches[i].stale
              => availableSeats' = availableSeats]_vars

\* C31, the part that holds: the seat set is always one whole seat set
C31_OnlyCompleteSeatSets == availableSeats \in SeatSets

\* C32: the selected seat is null or a seat of the current seat set.
C32_SelectedSeatInSeatSet ==
    selectedSeat = <<>> \/ selectedSeat[1] \in seatsOf(availableSeats)

\* C32, the part that holds: an import and a reload that replace the seat
\* set clear the selection
C32_ImportAndReloadClearSelection ==
    [][availableSeats' # availableSeats /\ availableSeats' # DEFAULT_SEATS
          => selectedSeat' = <<>>]_vars

\* C34: whenever the purchase-complete screen is shown a seat is selected.
C34_PurchaseHasSeat == purchaseComplete => selectedSeat # <<>>

\* C34, the part that holds: purchaseComplete is set only with a seat
\* selected, and it is reset together with the selection and the view
C34_SetWithSeatResetTogether ==
    [][/\ ~purchaseComplete /\ purchaseComplete'
             => selectedSeat # <<>> /\ selectedSeat' = selectedSeat
       /\ purchaseComplete /\ ~purchaseComplete'
             => selectedSeat' = <<>> /\ ~viewingMode']_vars

\* C35: the seat set is never empty: a file load, a reload or an import that
\* yields no seat leaves the seat set and the selection as they are, and
\* isLoadingSeats is false when a load has settled.
C35_SeatSetNeverEmpty ==
    /\ [](Len(availableSeats) > 0)
    /\ [][(\E i \in 1..Len(fetches) : Settles(i)) => ~isLoadingSeats']_vars
    /\ [][\A i \in 1..Len(fetches) :
             loadSeatsFromFileSettled(i, <<>>) \/ handleSeatsImported(<<>>)
                 => UNCHANGED <<availableSeats, selectedSeat>>]_vars

\* the load of the mount has settled without a seat: the default seats stay
C35_Witness ==
    /\ fetches = <<>>
    /\ ~isLoadingSeats
    /\ ~fileSeatsLoaded
    /\ availableSeats = DEFAULT_SEATS

-----------------------------------------------------------------------------
(* Properties of the seat map: the selected seat                            *)

\* the map is mounted, its effects have run, and it highlights a seat
Highlights(i) ==
    /\ rendered # <<>>
    /\ pendingEffects = {}
    /\ selectedSeatIndex = <<i>>
    /\ i \in 1..Len(availableSeats)

\* C33: the seat the map highlights as selected is the seat App holds as
\* the selected seat, also when two seats of the set share an id.
C33_HighlightedIsSelected ==
    \A i \in 1..Len(availableSeats) :
        Highlights(i) => selectedSeat = <<availableSeats[i]>>

\* C33, the part that holds: the seat highlighted has the id of the seat App
\* holds, as long as App holds one
C33_HighlightedHasSelectedId ==
    \A i \in 1..Len(availableSeats) :
        Highlights(i) /\ selectedSeat # <<>> /\ ~isTransitioning
            => availableSeats[i].id = selectedSeat[1].id

\* the timer p carries on the selection the timer tm belongs to
CarriesOn(p, tm, kinds) ==
    /\ p.kind \in kinds
    /\ p.index = tm.index
    /\ p.seat = tm.seat

\* C36: each accepted click leads to exactly one onSeatSelect call, made
\* with the seat that was clicked: the 200 ms timer of an accepted click
\* stays pending until it has started the 100 ms timer, and that one until
\* it has called onSeatSelect with the seat.
C36_AcceptedClickSelectsOnce ==
    [][\A tm \in timers :
          /\ tm.live /\ tm.kind = "select"
                => \E p \in timers' : CarriesOn(p, tm, {"select", "inner"})
          /\ tm.kind = "inner"
                => \/ \E p \in timers' : CarriesOn(p, tm, {"inner"})
                   \/ selectedSeat' = <<tm.seat>>]_vars

\* C36, the part that holds: a click made while isTransitioning is set
\* changes nothing but the Seat's own click timer, and onSeatSelect is
\* called with no seat but the one clicked
C36_ClickInTransitionIgnored ==
    [][\A tm \in timers :
          /\ ClickTimeout(tm) /\ tm.transitioning
                => UNCHANGED <<selectVars, selectedSeat, availableSeats>>
          /\ \A batched \in BOOLEAN :
                InnerTimeout(tm, batched) => selectedSeat' = <<tm.seat>>]_vars

\* the horizontal of a rendered position, at ground level
GroundOf(position) == <<position[1], Number(0), position[3]>>

\* C37: the camera target computed when a seat is selected is the
\* horizontal (x, z) of the position at which that seat is rendered, for
\* every seat and every transformation configuration.
C37_FocusIsRenderedPosition ==
    [][\A tm \in timers :
          ClickTimeout(tm) /\ ~tm.transitioning
              => /\ tm.index \in 1..Len(rendered)
                 /\ rendered[tm.index].seat = tm.seat
                 /\ \E p \in timers' :
                       /\ CarriesOn(p, tm, {"select"})
                       /\ p.target = GroundOf(rendered[tm.index].position)]_vars

\* the camera has been given the target of a seat rendered off the origin,
\* under transformations loaded from a saved session
C37_Witness ==
    /\ cameraTarget # <<>>
    /\ transformations.rotation = Number(90)
    /\ transformations.scale # Number(1)
    /\ \E i \in 1..Len(rendered) :
          /\ cameraTarget[1] = GroundOf(rendered[i].position)
          /\ rendered[i].seat.coordinates.z # Number(0)

-----------------------------------------------------------------------------
(* Properties of validateGlbFile: errors                                    *)

IsVerdict(result) ==
    /\ DOMAIN result = {"valid", "message"}
    /\ result.valid \in BOOLEAN

\* C38: validateGlbFile never throws: a buffer too short for the header
\* fields yields a result with valid = false and a message, and the uploader
\* then shows that message and leaves the uploading flag false.
C38_ValidationNeverThrows ==
    /\ [](\A u \in 1..nUploads :
            uploads[u].pc # "validating" =>
                /\ IsVerdict(uploads[u].validation)
                /\ GlbNamed(uploads[u].file) /\ Len(uploads[u].file.bytes) < 20
                      => /\ ~uploads[u].validation.valid
                         /\ uploads[u].pc = "rejected"
                /\ GlbNamed(uploads[u].file) /\ Len(uploads[u].file.bytes) < 4
                      => uploads[u].validation.message
                             = "Error validating file")
    /\ [][\A u \in 1..nUploads :
             ValidationDone(u) /\ uploads'[u].pc = "rejected"
                 => /\ ~uploading'
                    /\ uploadError' = uploads'[u].validation.message]_vars

\* a .glb file of three bytes was rejected with the message of the catch
\* clause, and the uploader is no longer uploading
C38_Witness ==
    \E u \in 1..nUploads :
        /\ uploads[u].pc = "rejected"
        /\ GlbNamed(uploads[u].file)
        /\ Len(uploads[u].file.bytes) = 3
        /\ uploads[u].validation.message = "Error validating file"
        /\ uploadError = "Error validating file"
        /\ ~uploading

====
